---------------------------- MODULE Spec2Model ----------------------------
(***************************************************************************)
(* Axobase: the survival scheduler (SurvivalManager), the death manager    *)
(* (DeathManager) and the two x402 payment clients (payment/X402Client and *)
(* network/X402Client), as state machines.                                 *)
(*                                                                         *)
(* Units.  USDC amounts held by the wallet are in micro-USDC (the token's  *)
(* 6 decimals), as the bigint values of the source.  ETH amounts are in    *)
(* gwei (10^9 wei): every ETH threshold of the source is a multiple of     *)
(* 10^9 wei, so  wei < threshold  iff  gwei < threshold / 10^9.            *)
(* Prices quoted by a payment challenge are decimal strings; they are      *)
(* held in tenths of a micro-USDC (10^-7 USDC), one digit finer than the   *)
(* token, so that a price the token cannot represent can be quoted.        *)
(***************************************************************************)
EXTENDS Integers, Sequences, FiniteSets, TLC

\* ------------------------------------------------------------------ bounds
\* survival cycles started in one behaviour (cap on cycleCount)
MaxCycles == 2
\* daily inscriptions whose upload may be in flight together
MaxUploads == 1

\* ------------------------------------------------- constants of Survival.ts
\* BigInt(5 * 10**6), BigInt(2 * 10**6), BigInt(1 * 10**6), BigInt(0.5 * 10**6)
LOW_POWER_THRESHOLD == 5000000
EMERGENCY_THRESHOLD == 2000000
CRITICAL_THRESHOLD == 1000000
HIBERNATION_THRESHOLD == 500000
\* BigInt(1 * 10**15) wei = 10^6 gwei
MIN_ETH_FOR_GAS == 1000000
\* BigInt(20 * 10**6): the breeding floor of shouldConsiderBreeding
BREEDING_FUNDS == 20000000

\* OperationMode and BotLifeStatus (types/index.ts)
NORMAL == "normal"
LOW_POWER == "low_power"
EMERGENCY == "emergency"
HIBERNATION == "hibernation"
OperationMode == {NORMAL, LOW_POWER, EMERGENCY, HIBERNATION}
ALIVE == "ALIVE"
DEAD == "DEAD"

\* Balances the wallet collaborator may report: every threshold, the value
\* just below it, and the extremes.
UsdcValues ==
    {HIBERNATION_THRESHOLD - 1, HIBERNATION_THRESHOLD,
     EMERGENCY_THRESHOLD - 1, EMERGENCY_THRESHOLD,
     LOW_POWER_THRESHOLD - 1, LOW_POWER_THRESHOLD, BREEDING_FUNDS}
EthValues == {MIN_ETH_FOR_GAS - 1, MIN_ETH_FOR_GAS}

VARIABLES
    \* SurvivalManager
    isRunning,              \* this.isRunning
    survivalTimer,          \* this.survivalTimer: id of the interval, 0 = null
    liveIntervals,          \* intervals created by setInterval and not cleared
    dailyInscriptionTimer,  \* this.dailyInscriptionTimer armed (TRUE) or null
    cycleCount,             \* this.cycleCount
    status,                 \* this.status: life status, mode, balance
    thoughts,               \* this.thoughts
    frames,                 \* the invocations of runSurvivalCycle, by number
    lastResult,             \* the CycleResult of the cycle that completed last
    walletKnown,            \* walletManager.getWallet(geneHash) is defined
    oldEnough,              \* Date.now() - birthTime >= 72 h
    dailyUploads,           \* daily inscriptions whose upload is in flight
    inscriptionFailed,      \* the daily inscription that settled last was rejected
    unsent,                 \* entries logged since the daily upload in flight began
    \* DeathManager
    isShuttingDown,         \* this.isShuttingDown
    deathPc,                \* position of handleDeath
    \* the payer's wallet and the payment clients
    usdcBalance,            \* the payer's USDC balance, micro-USDC
    historicalAvg,          \* memoryLogger.getAverageTransactionCost(), 10^-7 USDC
    client,                 \* the X402Client class the agent constructed
    pc,                     \* payment/X402Client: the request() in progress
    nc,                     \* network/X402Client: the payForInference() in progress
    auths,                  \* the authorizations signed so far, in order
    nextNonce,              \* source of the random nonces
    usedNonces,             \* payee: nonces of the authorizations it has settled
    spent,                  \* payee: the transfers it has settled
    replays,                \* the authorizations presented to the payee once more
    pcRequests,             \* calls of request() so far
    ncRequests,             \* calls of payForInference() so far
    \* payment/X402Client: settlement tracking
    polls,                  \* the invocations of pollForSettlement, in order
    pendingSettlements,     \* this.pendingSettlements: txHashes of cached evidence
    nextTxHash,             \* the txHash the next settlement evidence carries
    proc,                   \* processPendingSettlements: its loop, when running
    \* EvolutionManager and the peer-discovery collaborator
    ownStatus,              \* this.ownStatus: the BotStatus given at construction
    isBreeding,             \* this.isBreeding
    evo,                    \* handler registered, executeBreeding's position, last return
    metadata,               \* p2pNetwork's config.metadata: willingToMate
    escrow,                 \* transfers of breedingLockAmount held by the breeding fund
    lockTxA,                \* opportunity.lockTxA of the attempt: none, mock or a transfer
    proposalStatus,         \* status of the pending proposal waitForAcceptance reads
    waited,                 \* Date.now() - startTime at waitForAcceptance's last test, ms
    breedingResult,         \* how the last executeBreeding settled
    \* MemoryBlender
    blendIn,                \* the two parent memories given to blend()
    blendOut,               \* what blend() did with them
    \* memory identity (gene hash)
    memoryData,             \* the records of a memory, in the order they are supplied
    geneHashes,             \* what generateGeneHash returned, call after call, and
                            \* whether the records were supplied in key order
    merkleRoots,            \* what calculateMerkleRoot returned, call after call
    \* MemoryExport, on one memory directory
    exportMarker,           \* the file .AXO_EXPORTED exists in the memory directory
    tarFiles,               \* the calls whose unencrypted archive is on disk
    encryptedFiles,         \* the calls whose encrypted archive is on disk
    exportCalls,            \* the calls of exportMemory: position, outcome
    \* X402Survival, the survival loop of the feral agent
    x402State,              \* this.state: mode, usdcBalance, consecutiveFailures
    survivalInterval,       \* this.survivalInterval is not null
    x402Intervals,          \* the intervals created and not cleared
    pendingChecks,          \* the survivalCheck runs begun and not settled
    heartbeat,              \* the hibernation notice was written to HEARTBEAT.md
    \* P2PNetwork of the proposing agent
    proposals,              \* this.proposals: the proposal object stored under a key
    incomingStatus,         \* status of the proposal received from the target
    delivered,              \* the mating responses handled during the wait
    \* MemoryImporter and the import step of a birth
    archive,                \* the archive: the gene hash its files declare, the
                            \* gene hash computed from its files
    expectedGeneHash,       \* config.geneHash of the birth
    imported,               \* what MemoryImporter.import returned last
    birthImport             \* how Birth.importMemory ended last

schedVars ==
    <<isRunning, survivalTimer, liveIntervals, dailyInscriptionTimer, cycleCount,
      status, thoughts, frames, lastResult, walletKnown, oldEnough, dailyUploads,
      inscriptionFailed, unsent>>
deathVars == <<isShuttingDown, deathPc>>
payVars ==
    <<usdcBalance, historicalAvg, client, pc, nc, auths, nextNonce, usedNonces, spent,
      replays, pcRequests, ncRequests>>
settleVars == <<polls, pendingSettlements, nextTxHash, proc>>
breedingVars == <<escrow, lockTxA, proposalStatus, waited, breedingResult>>
breedVars == <<ownStatus, isBreeding, evo, metadata, breedingVars>>
blendVars == <<blendIn, blendOut>>
identVars == <<memoryData, geneHashes, merkleRoots>>
exportVars == <<exportMarker, tarFiles, encryptedFiles, exportCalls>>
x402Vars == <<x402State, survivalInterval, x402Intervals, pendingChecks, heartbeat>>
mateVars == <<proposals, incomingStatus, delivered>>
importVars == <<archive, expectedGeneHash, imported, birthImport>>
vars ==
    <<schedVars, deathVars, payVars, settleVars, breedVars, blendVars,
      identVars, exportVars, x402Vars, mateVars, importVars>>

\* ---------------------------------------------------------- pure functions

\* determineOperationMode with the stable-balance floor tested before the gas
\* reserve.
determineOperationModeFloorFirst(eth, usdc) ==
    IF usdc < HIBERNATION_THRESHOLD THEN HIBERNATION
    ELSE IF eth < MIN_ETH_FOR_GAS THEN EMERGENCY
    ELSE IF usdc < EMERGENCY_THRESHOLD THEN EMERGENCY
    ELSE IF usdc < LOW_POWER_THRESHOLD THEN LOW_POWER
    ELSE NORMAL

\* determineOperationMode with the answers of its two lowest USDC tests exchanged.
determineOperationModeFloorsSwapped(eth, usdc) ==
    IF eth < MIN_ETH_FOR_GAS THEN EMERGENCY
    ELSE IF usdc < HIBERNATION_THRESHOLD THEN EMERGENCY
    ELSE IF usdc < EMERGENCY_THRESHOLD THEN HIBERNATION
    ELSE IF usdc < LOW_POWER_THRESHOLD THEN LOW_POWER
    ELSE NORMAL

\* determineOperationMode: gas first, then the USDC thresholds in order.
determineOperationMode(eth, usdc) ==
    IF eth < MIN_ETH_FOR_GAS THEN EMERGENCY
    ELSE IF usdc < HIBERNATION_THRESHOLD THEN HIBERNATION
    ELSE IF usdc < EMERGENCY_THRESHOLD THEN EMERGENCY
    ELSE IF usdc < LOW_POWER_THRESHOLD THEN LOW_POWER
    ELSE NORMAL

\* determineHealth
determineHealth(usdc) ==
    IF usdc < CRITICAL_THRESHOLD THEN "dead"
    ELSE IF usdc < EMERGENCY_THRESHOLD THEN "critical"
    ELSE IF usdc < LOW_POWER_THRESHOLD THEN "warning"
    ELSE "healthy"

\* The death check without its gas half.
deathConditionFloorOnly(eth, usdc) == usdc < HIBERNATION_THRESHOLD

\* The death check at the end of runSurvivalCycle.
deathCondition(eth, usdc) ==
    usdc < HIBERNATION_THRESHOLD /\ eth < MIN_ETH_FOR_GAS

\* shouldConsiderBreeding, on the status as the cycle has just updated it.
shouldConsiderBreeding(usdc, mode) ==
    oldEnough /\ usdc >= BREEDING_FUNDS /\ mode = NORMAL

\* The quality of the thought each mode generates (generateThought's argument).
thoughtQuality(mode) ==
    CASE mode = NORMAL -> "premium"
      [] mode = LOW_POWER -> "standard"
      [] mode = EMERGENCY -> "local"

\* ------------------------------------------------------------------ frames
\* The locals of one invocation of runSurvivalCycle while it is in flight.
NoFrame ==
    [pc |-> "none", eth |-> 0, usdc |-> 0, mode |-> NORMAL, actions |-> <<>>,
     health |-> "healthy"]

DoneFrame == [NoFrame EXCEPT !.pc = "done"]

\* No cycle has completed yet.
NoResult ==
    [cycle |-> 0, cycleNumber |-> 0, eth |-> 0, usdc |-> 0, mode |-> NORMAL,
     resultMode |-> NORMAL, actions |-> <<>>, health |-> "healthy", died |-> FALSE]

\* The tail of runSurvivalCycle for invocation n with locals f: the death check
\* and the CycleResult (its cycleNumber and mode are read from this at the end).
cycleResult(n, f, st) ==
    LET dies == deathCondition(f.eth, f.usdc) IN
    [cycle |-> n, cycleNumber |-> cycleCount, eth |-> f.eth, usdc |-> f.usdc,
     mode |-> f.mode, resultMode |-> st.mode,
     actions |-> IF dies THEN Append(f.actions, "death") ELSE f.actions,
     health |-> f.health, died |-> dies]

statusAfterDeathCheck(f, st) ==
    IF deathCondition(f.eth, f.usdc) THEN [st EXCEPT !.status = DEAD] ELSE st

\* ---------------------------------------------------------- payment clients
\* Bounds: calls of a client's entry point in one behaviour, authorizations
\* signed in one behaviour, authorizations presented to the payee once more.
MaxRequests == 2
MaxSigned == 3
MaxReplays == 1

\* config.maxPrice of network/X402Client: 5.0 USDC, in 10^-7 USDC
MAX_PRICE == 50000000
\* The chain the clients are configured for (Base mainnet).
ConfiguredChainId == "8453"

\* Prices a challenge may quote, in 10^-7 USDC: "0.000123", "0.0035", "0.0045"
\* and "6".
Amounts == {1230, 35000, 45000, 60000000}
\* Of these, the prices p whose IEEE-754 product parseFloat(p) * 1e6 lies above
\* the exact product although that is a whole number of micro-USDC
\* (0.000123 * 1e6 = 123.00000000000001).
CeilRoundsUp == {1230}

BalanceValues == {0, 2000, 10000000}
AverageValues == {0, 10000}

\* The descriptor an X-PAYMENT-INFO header carries, base64 or plain JSON.
Descriptors ==
    [kind : {"descriptor"}, enc : {"base64"}, scheme : {"exact"},
     networkId : {ConfiguredChainId}, amount : Amounts, status : {402}]
    \cup [kind : {"descriptor"}, enc : {"base64"}, scheme : {"exact", "upto"},
          networkId : {ConfiguredChainId, "84532", "1"}, amount : {35000},
          status : {402}]
    \cup [kind : {"descriptor"}, enc : {"plain"}, scheme : {"exact"},
          networkId : {ConfiguredChainId}, amount : {35000}, status : {402}]
NoDescriptor ==
    [kind |-> "none", enc |-> "base64", scheme |-> "exact", networkId |-> "",
     amount |-> 0, status |-> 402]

\* What the first, unauthenticated call is answered with: a response that is
\* not a 402 (a 200 or a 500, without payment header), or a 402 whose
\* X-PAYMENT-INFO header is absent, unparsable, or a descriptor.
FirstResponses ==
    {[NoDescriptor EXCEPT !.kind = "not402", !.status = st] : st \in {200, 500}}
    \cup {[NoDescriptor EXCEPT !.kind = k] : k \in {"missing", "garbage"}}
    \cup Descriptors

\* What the paid retry is answered with: no X-PAYMENT-RESPONSE header (with a
\* 2xx status or not), success with or without a txHash, or an error.
PaidResponses ==
    {"none_ok", "none_fail", "success_tx", "success_notx",
     "funds_exceeded", "invalid", "other_error"}

\* One call of request() / payForInference().
IdleCall ==
    [state |-> "idle", desc |-> NoDescriptor, balanceSeen |-> 0, guardTripped |-> FALSE,
     signs |-> 0, sent |-> 0, invalids |-> 0, fundsExceeded |-> FALSE,
     nonce |-> 0, error |-> "none", result |-> "none",
     returned |-> [status |-> 0, from |-> "none"], answer |-> "none"]

\* The HTTP status of the answer to a paid retry.
paidStatus(k) == IF k = "none_fail" THEN 500 ELSE 200

NoAuth == [client |-> "none"]

\* Math.ceil(parseFloat(maxAmountRequired) * 1e6): micro-USDC from a price in
\* 10^-7 USDC.
requiredAmount(amount) ==
    IF amount % 10 # 0 \/ amount \in CeilRoundsUp
    THEN (amount \div 10) + 1
    ELSE amount \div 10

\* A nonce generator that returns the same value at every draw.
generateNonceConstant(k) == 1

\* The nonce executePayment draws, crypto.randomUUID() of 122 random bits: the
\* k-th draw is a value no earlier draw returned.
generateNonce(k) == k

\* AgentWallet.signPayment(beneficiary, value, validAfter, validBefore): the
\* nonce of the authorization it returns, single-use like the above.
signPaymentNonce(k) == k

\* A test that takes every error status for a payment challenge.
pcIsChallengeAnyError(r) == r.status >= 400

\* request(): response.status === 402
pcIsChallenge(r) == r.status = 402

\* payForInference(): initialResponse.status !== 402 is the free path
ncIsChallenge(r) == r.status = 402

\* payment/X402Client.parsePaymentRequired: the error it throws, or "none".
pcParseError(h) ==
    IF h.kind \in {"missing", "not402"} THEN "missing_header"
    ELSE IF h.kind = "garbage" THEN "invalid_format"
    ELSE IF h.scheme # "exact" THEN "scheme"
    ELSE IF h.networkId # ConfiguredChainId THEN "network"
    ELSE "none"

\* network/X402Client.parsePaymentRequired: only base64 is decoded; a foreign
\* network id is logged, not refused.
ncParseError(h) ==
    IF h.kind \in {"missing", "not402"} THEN "missing_header"
    ELSE IF h.kind = "garbage" THEN "invalid_format"
    ELSE IF h.enc # "base64" THEN "invalid_format"
    ELSE IF h.scheme # "exact" THEN "scheme"
    ELSE "none"

\* (parseFloat(maxAmountRequired) / historicalAvg - 1) * 100 > 300, both sides
\* multiplied by historicalAvg / 100.
pcPriceDeviates(amount, avg) ==
    avg > 0 /\ (amount - avg) > 3 * avg

\* price > this.config.maxPrice
ncPriceTooHigh(amount) == amount > MAX_PRICE

\* A balance check that refuses only an empty wallet.
pcInsufficientEmptyOnly(balance, amount) == balance = 0

\* payment/X402Client balance check: balance (USDC) < parseFloat(maxAmountRequired)
pcInsufficient(balance, amount) == balance * 10 < amount

\* network/X402Client balance check: balance < requiredAmount (micro-USDC)
ncInsufficient(balance, amount) == balance < requiredAmount(amount)

\* An error test that also takes a success answer without txHash for an error.
pcIsPaymentErrorWithoutTx(k) ==
    k \in {"funds_exceeded", "invalid", "other_error", "success_notx"}

\* handlePaymentRequired: the X-PAYMENT-RESPONSE header is present and
\* parsed.status === 'error'.
pcIsPaymentError(k) == k \in {"funds_exceeded", "invalid", "other_error"}

\* An error handling that signs again and retries on "funds_exceeded" as well.
pcOnPaymentErrorRetryBoth(err) ==
    IF err \in {"funds_exceeded", "invalid"} THEN "retry" ELSE "throw"

\* What handlePaymentRequired does on an error status in X-PAYMENT-RESPONSE:
\* "funds_exceeded" throws, "invalid" signs again and retries, any other throws.
pcOnPaymentError(err) ==
    IF err = "funds_exceeded" THEN "throw"
    ELSE IF err = "invalid" THEN "retry"
    ELSE "throw"

\* handlePaymentRequired from its entry to the await on the paid retry, for the
\* call c: the price guard, the balance check, then signPayment and the retry.
\* Gives the call as it is left and the authorization signed (or NoAuth).
pcHandle(c0) ==
    LET amount == c0.desc.amount
        c == [c0 EXCEPT !.balanceSeen = usdcBalance,
                        !.guardTripped = pcPriceDeviates(amount, historicalAvg)]
    IN
    IF pcPriceDeviates(amount, historicalAvg)
    THEN [call |-> [c EXCEPT !.state = "done", !.error = "price",
                             !.result = "challenge_402",
                             !.returned = [status |-> 402, from |-> "first"]],
          auth |-> NoAuth]
    ELSE IF pcInsufficient(usdcBalance, amount)
    THEN [call |-> [c EXCEPT !.state = "done", !.error = "insufficient",
                             !.result = "challenge_402",
                             !.returned = [status |-> 402, from |-> "first"]],
          auth |-> NoAuth]
    ELSE [call |-> [c EXCEPT !.state = "paid", !.signs = @ + 1, !.sent = @ + 1,
                             !.nonce = signPaymentNonce(nextNonce)],
          auth |-> [client |-> "payment", nonce |-> signPaymentNonce(nextNonce),
                    signed |-> amount, declared |-> amount, requested |-> amount,
                    scheme |-> c.desc.scheme, networkId |-> c.desc.networkId,
                    avg |-> historicalAvg, ceiling |-> 0]]

\* executePayment from its entry to the await on the paid retry.
ncHandle(c0) ==
    LET amount == c0.desc.amount
        c == [c0 EXCEPT !.balanceSeen = usdcBalance,
                        !.guardTripped = ncPriceTooHigh(amount)]
    IN
    IF ~walletKnown
    THEN [call |-> [c EXCEPT !.state = "done", !.error = "wallet", !.result = "threw"],
          auth |-> NoAuth]
    ELSE IF ncPriceTooHigh(amount)
    THEN [call |-> [c EXCEPT !.state = "done", !.error = "price", !.result = "threw"],
          auth |-> NoAuth]
    ELSE IF ncInsufficient(usdcBalance, amount)
    THEN [call |-> [c EXCEPT !.state = "done", !.error = "insufficient",
                             !.result = "threw"],
          auth |-> NoAuth]
    ELSE [call |-> [c EXCEPT !.state = "paid", !.signs = @ + 1, !.sent = @ + 1,
                             !.nonce = generateNonce(nextNonce)],
          auth |-> [client |-> "network", nonce |-> generateNonce(nextNonce),
                    signed |-> requiredAmount(amount) * 10, declared |-> amount,
                    requested |-> amount, scheme |-> c.desc.scheme,
                    networkId |-> c.desc.networkId, avg |-> 0, ceiling |-> MAX_PRICE]]

\* -------------------------------------------------------------------- Init
\* The scheduler and the death manager as constructed.
InitScheduler ==
    /\ isRunning = FALSE
    /\ survivalTimer = 0
    /\ liveIntervals = {}
    /\ dailyInscriptionTimer = FALSE
    /\ cycleCount = 0
    /\ status = [status |-> ALIVE, mode |-> NORMAL, eth |-> 0, usdc |-> 0]
    /\ thoughts = <<>>
    /\ frames = [n \in 1..MaxCycles |-> NoFrame]
    /\ lastResult = NoResult
    /\ dailyUploads = 0
    /\ inscriptionFailed = FALSE
    /\ unsent = 0
    /\ isShuttingDown = FALSE
    /\ deathPc = "idle"

\* The payment clients as constructed, no call made yet.
InitClients ==
    /\ pc = IdleCall
    /\ nc = IdleCall
    /\ auths = <<>>
    /\ nextNonce = 1
    /\ usedNonces = {}
    /\ spent = <<>>
    /\ replays = <<>>
    /\ pcRequests = 0
    /\ ncRequests = 0

\* ------------------------------------------------------ settlement tracking
\* Bounds: pieces of settlement evidence created in one behaviour, invocations
\* of pollForSettlement in one behaviour, invocations in progress at one time,
\* submissions one invocation posts.
MaxEvidence == 1
MaxInvocations == 2
MaxConcurrent == 1
MaxPosts == 6

\* pollForSettlement: const maxRetries = 5
MAX_SUBMIT_RETRIES == 5
\* pollForSettlement: const maxPollAttempts = 60
MAX_POLL_ATTEMPTS == 60

\* What the facilitator answers a submission with: data.success, data.error, a
\* body with neither, or no response at all (axios rejects).
SubmitAnswers == {"success", "error", "throws", "neither"}

\* What the status endpoint answers a poll with.
StatusAnswers == {"confirmed", "failed", "pending", "throws"}

\* Math.pow(1.5, retryCount) * 1000, in quarters of a millisecond.
backoffDelay(retryCount) == (3 ^ retryCount * 4000) \div (2 ^ retryCount)

\* One invocation of pollForSettlement(evidence) as it starts.
newPoll(ev, origin) ==
    [ev |-> ev, origin |-> origin, phase |-> "submit", retryCount |-> 0, posts |-> 0,
     delay |-> 0, pollAttempts |-> 0, saw |-> "none", ended |-> "none",
     result |-> FALSE]

\* Invocation q leaves its submission loop, or returns: the counters of the
\* loops it has left are never read again.
leaveSubmit(q) == [q EXCEPT !.retryCount = 0, !.posts = 0, !.delay = 0]
return(q, how, value) ==
    [leaveSubmit(q) EXCEPT !.phase = "done", !.pollAttempts = 0, !.ended = how,
                           !.result = value]

\* The invocations that have not returned.
activePolls == {i \in DOMAIN polls : polls[i].phase # "done"}

IdleProc == [running |-> FALSE, visited |-> {}, current |-> 0]

\* The payment client's settlement state as constructed.
InitTracking ==
    /\ polls = <<>>
    /\ pendingSettlements = {}
    /\ nextTxHash = 1
    /\ proc = IdleProc

\* ------------------------------------------------------- EvolutionManager
\* config.minBreedingBalance, micro-USDC: the agent is configured with the
\* scheduler's breeding floor.
minBreedingBalance == BREEDING_FUNDS

\* The BotStatus objects an EvolutionManager may be constructed with.
OwnStatuses ==
    [status : {ALIVE, DEAD}, mode : {NORMAL, LOW_POWER},
     usdc : {minBreedingBalance - 1, minBreedingBalance}, survivalDays : {6, 7}]

\* canBreed(), on this.ownStatus = st and this.isBreeding = breeding.
canBreed(st, breeding) ==
    IF st.status # ALIVE THEN FALSE
    ELSE IF st.mode # NORMAL THEN FALSE
    ELSE IF st.usdc < minBreedingBalance THEN FALSE
    ELSE IF breeding THEN FALSE
    ELSE IF st.survivalDays < 7 THEN FALSE
    ELSE TRUE

\* What a method of the EvolutionManager returned last: the method, its input
\* (a fit mate among the known peers, a known and fit proposer) and its value
\* (an opportunity rather than null, acceptance, stats.canBreed, success).
NoReturn == [from |-> "none", input |-> FALSE, value |-> FALSE]

IdleEvo == [registered |-> FALSE, pc |-> "idle", returned |-> NoReturn]

\* executeBreeding's waitForAcceptance(opportunity.parentB, 60000), and the
\* sleep between two reads of the pending proposal, in ms.
timeoutMs == 60000
pollIntervalMs == 1000

\* setTimeout fires at its delay or later: by how much, in ms.
TimerLateness == {0, 1000}

MaxEscrow == 1

\* How executeBreeding settles: its promise resolves with a BreedingResult
\* (returned) or rejects (raised).
NoBreedingResult == [settled |-> "none", success |-> FALSE, error |-> ""]

\* executeBreeding's catch rethrowing the error.
failureOutcomeRethrown(error) ==
    [settled |-> "raised", success |-> FALSE, error |-> error]

\* executeBreeding's catch: return {success: false, error: error.message}.
failureOutcome(error) ==
    [settled |-> "returned", success |-> FALSE, error |-> error]

NotAccepted == "Mating proposal not accepted"

\* One turn of waitForAcceptance's loop, elapsed ms after startTime: the
\* deadline is tested, then the proposal is read, then the loop sleeps.
waitForAcceptance(elapsed, proposal) ==
    IF ~(elapsed < timeoutMs) THEN "timeout"
    ELSE IF proposal = "accepted" THEN "accepted"
    ELSE IF proposal = "rejected" THEN "rejected"
    ELSE "sleep"

\* releaseBreedingLock(): its body is empty; what the breeding fund holds
\* stays what it held.
releaseBreedingLock(held) == held

\* The EvolutionManager as constructed, before initialize().
InitEvolution ==
    /\ isBreeding = FALSE
    /\ evo = IdleEvo
    /\ escrow = 0
    /\ lockTxA = "none"
    /\ proposalStatus = "none"
    /\ waited = 0
    /\ breedingResult = NoBreedingResult

\* ----------------------------------------------------------- MemoryBlender
\* Gene hashes are sequences of characters; the ones parents are drawn from:
\* two that differ in the ninth character only, one that differs from them in
\* the eighth, one in the first, and two shorter than the prefix.
A8 == <<"a", "a", "a", "a", "a", "a", "a", "a">>
GeneHashes ==
    {A8 \o <<"a">>, A8 \o <<"b">>,
     <<"a", "a", "a", "a", "a", "a", "a", "b", "a">>,
     <<"b">> \o A8,
     <<"a", "a", "a">>, <<"a", "a", "a", "b">>}

\* parent.survivalDays, and the value of one numeric personality trait in
\* thousandths.
SurvivalValues == {-1, 0, 10, 30}
TraitValues == {200, 800}

\* Math.random() < MUTATION_RATE, and the mutationFactor then drawn, in
\* thousandths: 1 + (Math.random() * 2 - 1) * MUTATION_MAGNITUDE.
MutationFactors == {800, 1000, 1199}

Parents == [geneHash : GeneHashes, survivalDays : SurvivalValues, trait : TraitValues]

\* String.prototype.slice(0, n)
slice(str, n) == SubSeq(str, 1, IF Len(str) < n THEN Len(str) ELSE n)

prefixLength == 8

\* isRelated comparing the whole hashes only.
isRelatedIfEqual(geneA, geneB) == geneA = geneB

\* isRelated(geneA, geneB): equal hashes, or equal prefixes of prefixLength.
isRelated(geneA, geneB) ==
    IF geneA = geneB THEN TRUE
    ELSE IF slice(geneA, prefixLength) = slice(geneB, prefixLength) THEN TRUE
    ELSE FALSE

\* Numbers that are not integers are fractions num / den, den > 0.
fraction(n, d) == [num |-> n, den |-> d]
sameNumber(x, y) == x.num * y.den = y.num * x.den

\* weightA with the shares of the two parents exchanged.
weightAOfOther(survivalA, survivalB) ==
    IF survivalA + survivalB > 0 THEN fraction(survivalB, survivalA + survivalB)
    ELSE fraction(1, 2)

\* blend's weights: weightA = survivalA / totalSurvival when the total is
\* positive, else 0.5; weightB = 1 - weightA.
weightA(survivalA, survivalB) ==
    IF survivalA + survivalB > 0 THEN fraction(survivalA, survivalA + survivalB)
    ELSE fraction(1, 2)
weightB(wA) == fraction(wA.den - wA.num, wA.den)

\* Math.max(0, Math.min(1, x)), x in thousandths.
clamp(x) ==
    IF x.num < 0 THEN fraction(0, 1)
    ELSE IF x.num > 1000 * x.den THEN fraction(1000, 1)
    ELSE x

\* blendTraits on one numeric trait both parents have: the weighted average,
\* multiplied by the mutation factor and clamped when the trait mutates.
blendTrait(valA, valB, wA, wB, mutates, factor) ==
    LET blendedValue == fraction(valA * wA.num + valB * wB.num, wA.den)
    IN IF mutates
       THEN clamp(fraction(blendedValue.num * factor, blendedValue.den * 1000))
       ELSE blendedValue

NoBlend ==
    [outcome |-> "none", weightA |-> fraction(0, 1), weightB |-> fraction(0, 1),
     trait |-> fraction(0, 1), mutated |-> FALSE, parents |-> <<>>]

\* No blend() has been called.
InitBlendIdle ==
    /\ blendIn = <<>>
    /\ blendOut = NoBlend

\* ---------------------------------------------------------- memory identity
\* Bounds: records in one memory, calls of each identity function in one
\* behaviour.
MaxRecords == 5
MaxComputations == 2

\* A record is a key (a file path) and its content; keys are numbered in
\* their lexicographic order.  The memories identified have the keys 1..n,
\* with two contents in alternation.
contentOf(key) == IF key % 2 = 1 THEN "x" ELSE "y"

\* sha256 digests, as terms: of the empty string, of a leaf's text, of the
\* concatenation of two digests (both have 64 characters, so the
\* concatenation determines them), and of a digest followed by the text
\* "undefined", which string concatenation gives for an index past the end.
emptyDigest == [kind |-> "empty", key |-> 0, value |-> "", kids |-> <<>>]
leafDigest(rec) == [kind |-> "leaf", key |-> rec.key, value |-> rec.value, kids |-> <<>>]
undefinedText == [kind |-> "undefined", key |-> 0, value |-> "", kids |-> <<>>]
pairDigest(left, right) ==
    [kind |-> "node", key |-> 0, value |-> "", kids |-> <<left, right>>]

\* level[i] of a JavaScript array, 0-based: undefined past the end.
at(level, i) == IF i + 1 <= Len(level) THEN level[i + 1] ELSE undefinedText

\* One pass of the tree loops: nextLevel, from the pairs (i, i + 1), i = 0, 2, ...
nextLevel(level) ==
    [j \in 1..((Len(level) + 1) \div 2) |->
        pairDigest(at(level, 2 * j - 2), at(level, 2 * j - 1))]

\* The loop of generateMerkleRoot (feral/utils/crypto.ts): an odd level is
\* padded with its last element, then paired.
RECURSIVE generateMerkleLevels(_)
generateMerkleLevels(hashes) ==
    IF Len(hashes) <= 1 THEN hashes[1]
    ELSE generateMerkleLevels(
           nextLevel(IF Len(hashes) % 2 = 1
                     THEN Append(hashes, hashes[Len(hashes)]) ELSE hashes))

\* generateMerkleRoot(leaves)
generateMerkleRoot(leaves) ==
    IF Len(leaves) = 0 THEN emptyDigest
    ELSE generateMerkleLevels([i \in 1..Len(leaves) |-> leafDigest(leaves[i])])

\* Object.keys(memoryData).sort(), and Array.prototype.sort on paths.
sortByKey(records) == SortSeq(records, LAMBDA a, b : a.key < b.key)

\* generateGeneHash hashing the records in the order they are supplied.
generateGeneHashUnsorted(records) == generateMerkleRoot(records)

\* generateGeneHash(memoryData): the leaves are the records in key order.
generateGeneHash(records) == generateMerkleRoot(sortByKey(records))

\* The second loop of computeMerkleRoot (MemoryExport): the level is paired
\* as it is.
RECURSIVE computeMerkleLevels(_)
computeMerkleLevels(level) ==
    IF Len(level) <= 1 THEN level[1]
    ELSE computeMerkleLevels(nextLevel(level))

\* computeMerkleRoot(hashes): the digest of "" for no hash, the hash itself
\* for one; else the list is padded once with its last element while its
\* length is odd, and the tree is built.
computeMerkleRoot(hashes) ==
    IF Len(hashes) = 0 THEN emptyDigest
    ELSE IF Len(hashes) = 1 THEN hashes[1]
    ELSE computeMerkleLevels(IF Len(hashes) % 2 # 0
                             THEN Append(hashes, hashes[Len(hashes)]) ELSE hashes)

\* calculateMerkleRoot(dir): the files in sorted order, the digest of each
\* file's content, computeMerkleRoot.  The paths are not hashed.
calculateMerkleRoot(records) ==
    LET files == sortByKey(records)
    IN computeMerkleRoot([i \in 1..Len(files) |->
                            leafDigest([key |-> 0, value |-> files[i].value])])

\* ------------------------------------------------------------ memory export
MaxExports == 3

\* The errors fs.access rejects with when the marker cannot be reached.
AccessErrors == {"ENOENT", "EACCES"}

AlreadyExported == "Memory already exported"

\* The head of exportMemory with a catch that swallows every error.
accessOutcomeSwallowingAll(marker, errno) == "archive"

\* The head of exportMemory: fs.access(exportMarker) resolves when the marker
\* exists and the error thrown then has no code, so the catch rethrows it;
\* a rejection is swallowed only when its code is ENOENT.
accessOutcome(marker, errno) ==
    IF marker THEN "refused"
    ELSE IF errno # "ENOENT" THEN "failed"
    ELSE "archive"

\* The cleanup of exportMemory's catch: unlink(tarFile) then
\* unlink(encryptedFile) in one try, so the second is skipped when the first
\* throws.
tarFilesAfterCleanup(n) == tarFiles \ {n}
encryptedFilesAfterCleanup(n) ==
    IF n \in tarFiles THEN encryptedFiles \ {n} ELSE encryptedFiles

\* No export is in progress.
InitExportIdle ==
    /\ exportMarker = FALSE
    /\ tarFiles = {}
    /\ encryptedFiles = {}
    /\ exportCalls = <<>>

\* ------------------------------------------------------------ X402Survival
MaxFailures == 6
MaxIntervals == 2
MaxPending == 2

\* config.thresholds, in USDC, and the balances updateBalance may read.
criticalBalance == 2
lowBalance == 5
X402Balances == {1, 3, 5}

\* The mode survivalCheck sets from the balance it read.
survivalMode(usdc) ==
    IF usdc < criticalBalance THEN "emergency"
    ELSE IF usdc < lowBalance THEN "emergency"
    ELSE "normal"

\* survivalCheck's catch: hibernation when consecutiveFailures, just
\* incremented, is greater than 5.
tooManyFailures(failures) == failures > 5

\* Gene hashes, and the absence of one.
ArchiveHashes == {"0xaa", "0xbb", "0xcc"}
NoHash == "none"

NoImport == [settled |-> FALSE]

\* No import has been made.
InitImportIdle ==
    /\ archive = [declared |-> NoHash, computed |-> "0xaa"]
    /\ expectedGeneHash = "0xaa"
    /\ imported = NoImport
    /\ birthImport = "none"

\* The P2PNetwork as constructed: no proposal stored, none received.
InitMateIdle ==
    /\ proposals = <<>>
    /\ incomingStatus = "none"
    /\ delivered = {}

\* The X402Survival as constructed.
InitX402Idle ==
    /\ x402State = [mode |-> "normal", usdcBalance |-> 0, consecutiveFailures |-> 0]
    /\ survivalInterval = FALSE
    /\ x402Intervals = 0
    /\ pendingChecks = 0
    /\ heartbeat = FALSE

\* No memory is being identified.
InitIdentityIdle ==
    /\ memoryData = <<>>
    /\ geneHashes = <<>>
    /\ merkleRoots = <<>>

\* The scheduler's runs: the agent's age and wallet are given, the payment
\* clients stay idle.
Init ==
    /\ InitScheduler
    /\ InitClients
    /\ InitTracking
    /\ InitEvolution
    /\ InitBlendIdle
    /\ InitIdentityIdle
    /\ InitExportIdle
    /\ InitX402Idle
    /\ InitMateIdle
    /\ InitImportIdle
    /\ ownStatus = [status |-> ALIVE, mode |-> NORMAL, usdc |-> minBreedingBalance,
                    survivalDays |-> 7]
    /\ metadata = [willingToMate |-> FALSE]
    /\ walletKnown \in BOOLEAN
    /\ oldEnough \in BOOLEAN
    /\ client = "network"
    /\ usdcBalance = 0
    /\ historicalAvg = 0

\* The payment clients' runs: the payer's balance and price history are given,
\* the scheduler stays stopped.
InitPay ==
    /\ InitScheduler
    /\ InitClients
    /\ InitTracking
    /\ InitEvolution
    /\ InitBlendIdle
    /\ InitIdentityIdle
    /\ InitExportIdle
    /\ InitX402Idle
    /\ InitMateIdle
    /\ InitImportIdle
    /\ ownStatus = [status |-> ALIVE, mode |-> NORMAL, usdc |-> minBreedingBalance,
                    survivalDays |-> 7]
    /\ metadata = [willingToMate |-> FALSE]
    /\ walletKnown \in BOOLEAN
    /\ oldEnough = FALSE
    /\ client \in {"payment", "network"}
    /\ usdcBalance \in BalanceValues
    /\ historicalAvg \in AverageValues

\* The settlement tracker's runs: a payment client whose paid responses carry
\* a txHash; the scheduler stays stopped and no request is in progress.
InitSettle ==
    /\ InitScheduler
    /\ InitClients
    /\ InitTracking
    /\ InitEvolution
    /\ InitBlendIdle
    /\ InitIdentityIdle
    /\ InitExportIdle
    /\ InitX402Idle
    /\ InitMateIdle
    /\ InitImportIdle
    /\ ownStatus = [status |-> ALIVE, mode |-> NORMAL, usdc |-> minBreedingBalance,
                    survivalDays |-> 7]
    /\ metadata = [willingToMate |-> FALSE]
    /\ walletKnown = TRUE
    /\ oldEnough = FALSE
    /\ client = "payment"
    /\ usdcBalance = 10000000
    /\ historicalAvg = 0

\* ------------------------------------------------------- scheduler actions

\* The head of runSurvivalCycle up to the await on getBalances.  getBalances
\* throws before any I/O when the wallet is unknown: the cycle is rejected.
beginCycle ==
    /\ cycleCount' = cycleCount + 1
    /\ frames' = [frames EXCEPT ![cycleCount + 1] =
                    [NoFrame EXCEPT !.pc = IF walletKnown THEN "balances" ELSE "failed"]]

\* startSurvivalLoop without its isRunning test: every call arms the daily
\* inscription timer, creates an interval and runs a first cycle.
StartSurvivalLoopUnguarded ==
    /\ cycleCount < MaxCycles
    /\ isRunning' = TRUE
    /\ dailyInscriptionTimer' = TRUE
    /\ survivalTimer' = cycleCount + 1
    /\ liveIntervals' = liveIntervals \cup {cycleCount + 1}
    /\ beginCycle
    /\ UNCHANGED <<status, thoughts, lastResult, walletKnown, oldEnough,
                   dailyUploads, inscriptionFailed, unsent, deathVars, payVars,
                   settleVars, breedVars, blendVars, identVars, exportVars,
                   x402Vars, mateVars, importVars>>

\* startSurvivalLoop: returns at once when already running; else arms the daily
\* inscription timer, creates the interval and runs the first cycle.
StartSurvivalLoop ==
    IF isRunning
    THEN UNCHANGED vars
    ELSE /\ cycleCount < MaxCycles
         /\ isRunning' = TRUE
         /\ dailyInscriptionTimer' = TRUE
         /\ survivalTimer' = cycleCount + 1
         /\ liveIntervals' = liveIntervals \cup {cycleCount + 1}
         /\ beginCycle
         /\ UNCHANGED <<status, thoughts, lastResult, walletKnown, oldEnough,
                        dailyUploads, inscriptionFailed, unsent, deathVars, payVars,
                        settleVars, breedVars, blendVars, identVars, exportVars,
                        x402Vars, mateVars, importVars>>

\* A live interval fires: runSurvivalCycle is started (a rejection is logged).
TimerFires ==
    /\ liveIntervals # {}
    /\ cycleCount < MaxCycles
    /\ beginCycle
    /\ UNCHANGED <<isRunning, survivalTimer, liveIntervals, dailyInscriptionTimer,
                   status, thoughts, lastResult, walletKnown, oldEnough, dailyUploads,
                   inscriptionFailed, unsent,
                   deathVars, payVars, settleVars, breedVars, blendVars,
                   identVars, exportVars, x402Vars, mateVars, importVars>>

\* The actions one mode pushes, from the switch of runSurvivalCycle
\* (executeNormalMode, executeLowPowerMode, executeEmergencyMode, and the
\* synchronous head of executeHibernationMode).
modeActions(mode, usdc) ==
    CASE mode = NORMAL ->
           <<"thought_generated:premium">> \o
           (IF shouldConsiderBreeding(usdc, mode) THEN <<"breeding_check">> ELSE <<>>)
      [] mode = LOW_POWER -> <<"thought_generated:standard", "distress_broadcast">>
      [] mode = EMERGENCY -> <<"thought_generated:local", "emergency_distress">>
      [] mode = HIBERNATION -> <<"hibernation_pulse">>

\* runSurvivalCycle after getBalances returned (eth, usdc) to cycle n: status
\* update, classification, the mode's actions.  Hibernation with unflushed thoughts awaits the emergency
\* inscription; every other path runs on to the death check without real I/O.
runSurvivalCycleAfterBalances(n, eth, usdc) ==
    /\ frames[n].pc = "balances"
    /\ LET newMode == determineOperationMode(eth, usdc)
           st == [status EXCEPT !.eth = eth, !.usdc = usdc, !.mode = newMode]
           f1 == [frames[n] EXCEPT
                    !.eth = eth, !.usdc = usdc, !.mode = newMode,
                    !.health = determineHealth(usdc),
                    !.actions = (IF newMode # status.mode
                                 THEN <<"mode_change">> ELSE <<>>)
                                \o modeActions(newMode, usdc)]
       IN
       IF newMode = HIBERNATION /\ Len(thoughts) > 0
       THEN /\ frames' = [frames EXCEPT ![n] = [f1 EXCEPT !.pc = "inscribing"]]
            /\ status' = st
            /\ UNCHANGED <<thoughts, lastResult>>
       ELSE /\ frames' = [frames EXCEPT ![n] = DoneFrame]
            /\ lastResult' = cycleResult(n, f1, st)
            /\ status' = statusAfterDeathCheck(f1, st)
            /\ thoughts' = IF newMode = HIBERNATION THEN thoughts
                           ELSE Append(thoughts,
                                       [quality |-> thoughtQuality(newMode), cycle |-> n])
    /\ UNCHANGED <<isRunning, survivalTimer, liveIntervals, dailyInscriptionTimer,
                   cycleCount, walletKnown, oldEnough, dailyUploads, inscriptionFailed,
                   deathVars, payVars, settleVars, breedVars, blendVars,
                   identVars, exportVars, x402Vars, mateVars, importVars>>

\* getBalances returns (eth, usdc) to cycle n.
BalancesReturn(n, eth, usdc) ==
    /\ runSurvivalCycleAfterBalances(n, eth, usdc)
    /\ UNCHANGED unsent

\* performEmergencyInscription settles for cycle n (its failure is swallowed; the
\* log is not cleared): the cycle runs on to the death check.
EmergencyInscriptionReturn(n) ==
    /\ frames[n].pc = "inscribing"
    /\ LET f1 == [frames[n] EXCEPT !.actions = Append(@, "emergency_inscription")] IN
       /\ frames' = [frames EXCEPT ![n] = DoneFrame]
       /\ lastResult' = cycleResult(n, f1, status)
       /\ status' = statusAfterDeathCheck(f1, status)
    /\ UNCHANGED <<isRunning, survivalTimer, liveIntervals, dailyInscriptionTimer,
                   cycleCount, thoughts, walletKnown, oldEnough, dailyUploads,
                   inscriptionFailed, unsent,
                   deathVars, payVars, settleVars, breedVars, blendVars,
                   identVars, exportVars, x402Vars, mateVars, importVars>>

\* performDailyInscription is started (not awaited) and the timeout is re-armed
\* by scheduleDailyInscription.  dailyInscribe builds its payload from the log
\* before its first await (JSON.stringify, memory/Inscribe.ts): every entry then
\* in the log is in the payload.
performDailyInscription ==
    /\ dailyInscriptionTimer
    /\ dailyUploads < MaxUploads
    /\ dailyUploads' = dailyUploads + 1
    /\ UNCHANGED <<inscriptionFailed, isRunning, survivalTimer, liveIntervals,
                   dailyInscriptionTimer,
                   cycleCount, status, thoughts, frames, lastResult, walletKnown,
                   oldEnough, deathVars, payVars, settleVars, breedVars, blendVars,
                   identVars, exportVars, x402Vars, mateVars, importVars>>

\* The daily timeout fires.
DailyTimerFires ==
    /\ performDailyInscription
    /\ UNCHANGED unsent

\* performDailyInscription clearing the log whatever dailyInscribe answered.
thoughtsClearedAlways(ok, log) == <<>>

\* performDailyInscription once dailyInscribe has settled: this.thoughts is
\* replaced by an empty log on success and left alone in the catch block.
thoughtsAfterInscription(ok, log) == IF ok THEN <<>> ELSE log

\* performDailyInscription once dailyInscribe has settled: on success the log is
\* cleared, a failure is swallowed.
dailyInscribeSettles(ok) ==
    /\ dailyUploads > 0
    /\ dailyUploads' = dailyUploads - 1
    /\ thoughts' = thoughtsAfterInscription(ok, thoughts)
    /\ inscriptionFailed' = ~ok
    /\ UNCHANGED <<isRunning, survivalTimer, liveIntervals, dailyInscriptionTimer,
                   cycleCount, status, frames, lastResult, walletKnown, oldEnough,
                   deathVars, payVars, settleVars, breedVars, blendVars,
                   identVars, exportVars, x402Vars, mateVars, importVars>>

\* dailyInscribe settles.
DailyInscriptionReturn(ok) ==
    /\ dailyInscribeSettles(ok)
    /\ UNCHANGED unsent

\* stop(): clears both timers.
Stop ==
    /\ isRunning' = FALSE
    /\ survivalTimer' = 0
    /\ liveIntervals' = IF survivalTimer # 0 THEN liveIntervals \ {survivalTimer}
                        ELSE liveIntervals
    /\ dailyInscriptionTimer' = FALSE
    /\ UNCHANGED <<cycleCount, status, thoughts, frames, lastResult, walletKnown,
                   oldEnough, dailyUploads, inscriptionFailed, unsent, deathVars,
                   payVars, settleVars, breedVars, blendVars, identVars, exportVars,
                   x402Vars, mateVars, importVars>>

\* handleDeath, entered from a signal handler or from dieByStarvation: refused
\* when a death ritual is already in progress.
HandleDeath ==
    /\ IF isShuttingDown
       THEN UNCHANGED deathVars
       ELSE /\ isShuttingDown' = TRUE
            /\ deathPc' = "ritual"
    /\ UNCHANGED <<schedVars, payVars, settleVars, breedVars, blendVars,
                   identVars, exportVars, x402Vars, mateVars, importVars>>

\* The death ritual (final inscription, tombstone, cleanup) settles, with a
\* result of success or of failure.
HandleDeathReturn ==
    /\ deathPc = "ritual"
    /\ deathPc' = "done"
    /\ UNCHANGED <<isShuttingDown, schedVars, payVars, settleVars, breedVars, blendVars,
                   identVars, exportVars, x402Vars, mateVars, importVars>>

\* The scheduler's steps.  The DeathManager's steps, which read and write no
\* field of the scheduler, run beside them in SpecLog.
Next ==
    \/ StartSurvivalLoop
    \/ TimerFires
    \/ \E n \in 1..MaxCycles, eth \in EthValues, usdc \in UsdcValues :
         BalancesReturn(n, eth, usdc)
    \/ \E n \in 1..MaxCycles : EmergencyInscriptionReturn(n)
    \/ DailyTimerFires
    \/ \E ok \in BOOLEAN : DailyInscriptionReturn(ok)
    \/ Stop

Spec == Init /\ [][Next]_vars

\* --------------------------------------------------- payment client actions
\* The outcome of a handle step on the shared state.
signedBy(h) ==
    /\ h.auth # NoAuth => Len(auths) < MaxSigned
    /\ auths' = IF h.auth = NoAuth THEN auths ELSE Append(auths, h.auth)
    /\ nextNonce' = IF h.auth = NoAuth THEN nextNonce ELSE nextNonce + 1

\* The authorization a call's paid retry carries: the one it signed last.
authOf(c) == auths[Len(auths)]

\* The payee: it settles an authorization whose nonce it has not settled before
\* and that the payer's balance covers, and refuses every other one.
payeeAccepts(a) ==
    /\ a.nonce \notin usedNonces
    /\ a.signed \div 10 <= usdcBalance

\* What the payee does on answering the paid retry of call c with kind k: a
\* success answer settles the transfer.
payeeAnswers(c, k) ==
    IF k \in {"success_tx", "success_notx"}
    THEN /\ payeeAccepts(authOf(c))
         /\ usedNonces' = usedNonces \cup {c.nonce}
         /\ usdcBalance' = usdcBalance - (authOf(c).signed \div 10)
         /\ spent' = Append(spent, [nonce |-> c.nonce, value |-> authOf(c).signed \div 10])
    ELSE UNCHANGED <<usedNonces, usdcBalance, spent>>

\* request(): the first call, without payment, is sent.
PcRequest ==
    /\ client = "payment"
    /\ pc.state \in {"idle", "done"}
    /\ pcRequests < MaxRequests
    /\ pcRequests' = pcRequests + 1
    /\ pc' = [IdleCall EXCEPT !.state = "first"]
    /\ UNCHANGED <<importVars, mateVars, x402Vars, exportVars, identVars, blendVars,
                   breedVars, settleVars, schedVars, deathVars, usdcBalance,
                   historicalAvg, client, nc, auths, nextNonce, usedNonces, spent,
                   replays, ncRequests>>

\* request() receives the first response r.  Not a 402: returned as it is.  A 402:
\* parsePaymentRequired, then handlePaymentRequired; an error of the first makes
\* the catch block's own parsePaymentRequired throw out of request().
PcFirstResponse(r) ==
    /\ pc.state = "first"
    /\ IF ~pcIsChallenge(r)
       THEN /\ pc' = [pc EXCEPT !.state = "done", !.result = "free", !.desc = r,
                                !.returned = [status |-> r.status, from |-> "first"]]
            /\ UNCHANGED <<auths, nextNonce>>
       ELSE IF pcParseError(r) # "none"
       THEN /\ pc' = [pc EXCEPT !.state = "done", !.error = pcParseError(r),
                                !.result = "threw", !.desc = r,
                                !.balanceSeen = usdcBalance]
            /\ UNCHANGED <<auths, nextNonce>>
       ELSE LET h == pcHandle([pc EXCEPT !.desc = r])
            IN /\ pc' = h.call
               /\ signedBy(h)
    /\ UNCHANGED <<importVars, mateVars, x402Vars, exportVars, identVars, blendVars,
                   breedVars, settleVars, schedVars, deathVars, usdcBalance,
                   historicalAvg, client, nc, usedNonces, spent, replays, pcRequests,
                   ncRequests>>

\* handlePaymentRequired receives the answer k to its paid retry: without the
\* header, or with a success status, the response is returned; an error status
\* throws (request() then returns the 402) or, for "invalid", runs
\* handlePaymentRequired again.
PcPaidResponse(k) ==
    /\ pc.state = "paid"
    /\ payeeAnswers(pc, k)
    /\ LET seen == [pc EXCEPT !.invalids = IF k = "invalid" THEN @ + 1 ELSE @,
                              !.fundsExceeded = @ \/ k = "funds_exceeded",
                              !.answer = k]
       IN
       IF ~pcIsPaymentError(k)
       THEN /\ pc' = [seen EXCEPT !.state = "done", !.result = "paid_response",
                                !.returned = [status |-> paidStatus(k),
                                              from |-> "paid"]]
            /\ UNCHANGED <<auths, nextNonce>>
       ELSE IF pcOnPaymentError(k) = "retry"
       THEN /\ pc' = pcHandle(seen).call
            /\ signedBy(pcHandle(seen))
       ELSE /\ pc' = [seen EXCEPT !.state = "done",
                                  !.error = IF k = "funds_exceeded" THEN k
                                            ELSE "payment_error",
                                  !.result = "challenge_402",
                                  !.returned = [status |-> 402, from |-> "first"]]
            /\ UNCHANGED <<auths, nextNonce>>
    /\ UNCHANGED <<importVars, mateVars, x402Vars, exportVars, identVars, blendVars,
                   breedVars, settleVars, schedVars, deathVars, historicalAvg, client, nc,
                   replays, pcRequests, ncRequests>>

\* payForInference(): the first call, without payment, is sent.
NcPayForInference ==
    /\ client = "network"
    /\ nc.state \in {"idle", "done"}
    /\ ncRequests < MaxRequests
    /\ ncRequests' = ncRequests + 1
    /\ nc' = [IdleCall EXCEPT !.state = "first"]
    /\ UNCHANGED <<importVars, mateVars, x402Vars, exportVars, identVars, blendVars,
                   breedVars, settleVars, schedVars, deathVars, usdcBalance,
                   historicalAvg, client, pc, auths, nextNonce, usedNonces, spent,
                   replays, pcRequests>>

\* payForInference() receives the first response r: not a 402, the content is
\* returned at no cost; a 402, parsePaymentRequired then executePayment, whose
\* errors reject the call.
NcFirstResponse(r) ==
    /\ nc.state = "first"
    /\ IF ~ncIsChallenge(r)
       THEN /\ nc' = [nc EXCEPT !.state = "done", !.result = "free", !.desc = r,
                                !.returned = [status |-> 0, from |-> "first"]]
            /\ UNCHANGED <<auths, nextNonce>>
       ELSE IF ncParseError(r) # "none"
       THEN /\ nc' = [nc EXCEPT !.state = "done", !.error = ncParseError(r),
                                !.result = "threw", !.desc = r,
                                !.balanceSeen = usdcBalance]
            /\ UNCHANGED <<auths, nextNonce>>
       ELSE LET h == ncHandle([nc EXCEPT !.desc = r])
            IN /\ nc' = h.call
               /\ signedBy(h)
    /\ UNCHANGED <<importVars, mateVars, x402Vars, exportVars, identVars, blendVars,
                   breedVars, settleVars, schedVars, deathVars, usdcBalance,
                   historicalAvg, client, pc, usedNonces, spent, replays, pcRequests,
                   ncRequests>>

\* executePayment receives the answer k to its paid retry: an error status in
\* the header throws, whatever the error; without a header only a 200/201 is
\* a result.
NcPaidResponse(k) ==
    /\ nc.state = "paid"
    /\ payeeAnswers(nc, k)
    /\ nc' = IF k \in {"none_ok", "success_tx", "success_notx"}
             THEN [nc EXCEPT !.state = "done", !.result = "paid_response",
                             !.answer = k,
                             !.returned = [status |-> 0, from |-> "paid"]]
             ELSE [nc EXCEPT !.state = "done", !.result = "threw", !.answer = k,
                             !.invalids = IF k = "invalid" THEN @ + 1 ELSE @,
                             !.fundsExceeded = (k = "funds_exceeded"),
                             !.error = IF k = "none_fail" THEN "request_failed"
                                       ELSE IF k = "funds_exceeded" THEN k
                                       ELSE "payment_error"]
    /\ UNCHANGED <<importVars, mateVars, x402Vars, exportVars, identVars, blendVars,
                   breedVars, settleVars, schedVars, deathVars, historicalAvg, client, pc,
                   auths, nextNonce, replays, pcRequests, ncRequests>>

\* A signed authorization is presented to the payee once more (by the provider
\* or by anyone who saw the X-PAYMENT header): the payee settles it if it
\* accepts it, and refuses it otherwise, transferring nothing.
Replay(i) ==
    /\ Len(replays) < MaxReplays
    /\ replays' = Append(replays, [nonce |-> auths[i].nonce,
                                   settled |-> payeeAccepts(auths[i])])
    /\ IF payeeAccepts(auths[i])
       THEN /\ usedNonces' = usedNonces \cup {auths[i].nonce}
            /\ usdcBalance' = usdcBalance - (auths[i].signed \div 10)
            /\ spent' = Append(spent, [nonce |-> auths[i].nonce,
                                       value |-> auths[i].signed \div 10])
       ELSE UNCHANGED <<usedNonces, usdcBalance, spent>>
    /\ UNCHANGED <<importVars, mateVars, x402Vars, exportVars, identVars, blendVars,
                   breedVars, settleVars, schedVars, deathVars, historicalAvg, client, pc,
                   nc, auths, nextNonce, pcRequests, ncRequests>>

NextPay ==
    \/ PcRequest
    \/ \E r \in FirstResponses : PcFirstResponse(r)
    \/ \E k \in PaidResponses : PcPaidResponse(k)
    \/ NcPayForInference
    \/ \E r \in FirstResponses : NcFirstResponse(r)
    \/ \E k \in PaidResponses : NcPaidResponse(k)
    \/ \E i \in DOMAIN auths : Replay(i)

SpecPay == InitPay /\ [][NextPay]_vars

\* ----------------------------------------------- settlement tracking actions
\* handlePaymentRequired, on a paid response with a txHash: the evidence is
\* built and pollForSettlement(evidence) is started without being awaited.
BeginSettlement ==
    /\ nextTxHash <= MaxEvidence
    /\ Len(polls) < MaxInvocations
    /\ Cardinality(activePolls) < MaxConcurrent
    /\ polls' = Append(polls, newPoll(nextTxHash, "payment"))
    /\ nextTxHash' = nextTxHash + 1
    /\ UNCHANGED <<pendingSettlements, proc, schedVars, deathVars, payVars,
                   breedVars, blendVars,
                   identVars, exportVars, x402Vars, mateVars, importVars>>

\* One pass of the submission loop of invocation i: the evidence is posted and
\* answered with a.  Success ends the loop; an error answer or a rejected post
\* counts a retry and sleeps backoffDelay; an answer with neither success nor
\* error counts nothing.  The loop left without success caches the evidence and
\* returns false.
SubmitAnswer(i, a) ==
    /\ polls[i].phase = "submit"
    /\ polls[i].posts < MaxPosts
    /\ LET q == [polls[i] EXCEPT !.posts = @ + 1] IN
       IF a = "success"
       THEN /\ polls' = [polls EXCEPT ![i] = [leaveSubmit(q) EXCEPT !.phase = "poll"]]
            /\ UNCHANGED pendingSettlements
       ELSE IF a = "neither"
       THEN /\ polls' = [polls EXCEPT ![i] = q]
            /\ UNCHANGED pendingSettlements
       ELSE LET r == [q EXCEPT !.retryCount = @ + 1,
                               !.delay = backoffDelay(q.retryCount + 1)]
            IN IF r.retryCount < MAX_SUBMIT_RETRIES
               THEN /\ polls' = [polls EXCEPT ![i] = r]
                    /\ UNCHANGED pendingSettlements
               ELSE /\ polls' = [polls EXCEPT ![i] = return(r, "unsubmitted", FALSE)]
                    /\ pendingSettlements' = pendingSettlements \cup {r.ev}
    /\ UNCHANGED <<nextTxHash, proc, schedVars, deathVars, payVars, breedVars, blendVars,
                   identVars, exportVars, x402Vars, mateVars, importVars>>

\* One pass of the polling loop of invocation i: the status is fetched and
\* answered with a.  "confirmed" returns true; "failed" throws inside the try
\* block and is caught like a rejected fetch; then pollAttempts is counted and
\* the loop sleeps, or ends with false at MAX_POLL_ATTEMPTS.
PollAnswer(i, a) ==
    /\ polls[i].phase = "poll"
    /\ LET q == [polls[i] EXCEPT !.saw = IF a \in {"confirmed", "failed"} THEN a ELSE @]
       IN
       IF a = "confirmed"
       THEN polls' = [polls EXCEPT ![i] = return(q, "confirmed", TRUE)]
       ELSE IF q.pollAttempts + 1 < MAX_POLL_ATTEMPTS
       THEN polls' = [polls EXCEPT ![i] = [q EXCEPT !.pollAttempts = @ + 1]]
       ELSE polls' = [polls EXCEPT ![i] = return(q, "exhausted", FALSE)]
    /\ UNCHANGED <<pendingSettlements, nextTxHash, proc, schedVars, deathVars, payVars,
                   breedVars, blendVars, identVars, exportVars, x402Vars, mateVars,
                   importVars>>

\* The polling loop of invocation i finds pollTimeoutMs elapsed: it breaks and
\* the invocation returns false.
PollTimeout(i) ==
    /\ polls[i].phase = "poll"
    /\ polls[i].pollAttempts >= 1
    /\ polls' = [polls EXCEPT ![i] = return(polls[i], "timeout", FALSE)]
    /\ UNCHANGED <<pendingSettlements, nextTxHash, proc, schedVars, deathVars, payVars,
                   breedVars, blendVars, identVars, exportVars, x402Vars, mateVars,
                   importVars>>

\* processPendingSettlements(): returns at once on an empty map; else its loop
\* takes the next entry of the map and awaits pollForSettlement on it.
ProcessPendingSettlements ==
    /\ ~proc.running
    /\ pendingSettlements # {}
    /\ Len(polls) < MaxInvocations
    /\ Cardinality(activePolls) < MaxConcurrent
    /\ \E ev \in pendingSettlements :
          /\ \A other \in pendingSettlements : ev <= other
          /\ polls' = Append(polls, newPoll(ev, "pending"))
          /\ proc' = [running |-> TRUE, visited |-> {ev}, current |-> Len(polls) + 1]
    /\ UNCHANGED <<pendingSettlements, nextTxHash, schedVars, deathVars, payVars,
                   breedVars, blendVars, identVars, exportVars, x402Vars, mateVars,
                   importVars>>

\* The pollForSettlement that processPendingSettlements awaits has returned:
\* on true the entry is deleted; the loop goes on to the next entry of the
\* map, or ends.
ProcessPendingResume ==
    /\ proc.running
    /\ polls[proc.current].phase = "done"
    /\ LET kept == IF polls[proc.current].result
                   THEN pendingSettlements \ {polls[proc.current].ev}
                   ELSE pendingSettlements
           rest == kept \ proc.visited
       IN /\ pendingSettlements' = kept
          /\ IF rest = {}
             THEN /\ proc' = IdleProc
                  /\ UNCHANGED polls
             ELSE /\ Len(polls) < MaxInvocations
                  /\ \E ev \in rest :
                        /\ \A other \in rest : ev <= other
                        /\ polls' = Append(polls, newPoll(ev, "pending"))
                        /\ proc' = [proc EXCEPT !.visited = @ \cup {ev},
                                                !.current = Len(polls) + 1]
    /\ UNCHANGED <<nextTxHash, schedVars, deathVars, payVars, breedVars, blendVars,
                   identVars, exportVars, x402Vars, mateVars, importVars>>

NextSettle ==
    \/ BeginSettlement
    \/ \E i \in DOMAIN polls : \E a \in SubmitAnswers : SubmitAnswer(i, a)
    \/ \E i \in DOMAIN polls : \E a \in StatusAnswers : PollAnswer(i, a)
    \/ \E i \in DOMAIN polls : PollTimeout(i)
    \/ ProcessPendingSettlements
    \/ ProcessPendingResume

SpecSettle == InitSettle /\ [][NextSettle]_vars

\* ------------------------------------------------- EvolutionManager actions

\* The EvolutionManager's runs: its BotStatus and the peer-discovery metadata
\* are given at construction; the scheduler and the payment clients stay idle.
InitBreed ==
    /\ InitScheduler
    /\ InitClients
    /\ InitTracking
    /\ InitEvolution
    /\ InitBlendIdle
    /\ InitIdentityIdle
    /\ InitExportIdle
    /\ InitX402Idle
    /\ InitMateIdle
    /\ InitImportIdle
    /\ walletKnown = TRUE
    /\ oldEnough = FALSE
    /\ client = "network"
    /\ usdcBalance = 0
    /\ historicalAvg = 0
    /\ ownStatus \in OwnStatuses
    /\ metadata \in [willingToMate : BOOLEAN]

notBreedVars ==
    <<schedVars, deathVars, payVars, settleVars, blendVars,
      identVars, exportVars, x402Vars, importVars>>

otherVars == <<notBreedVars, mateVars>>

\* updateMatingMetadata(): p2pNetwork.updateMetadata({willingToMate: canBreed()}).
updateMatingMetadata ==
    metadata' = [metadata EXCEPT !.willingToMate = canBreed(ownStatus, isBreeding)]

\* initialize(): registers the mating proposal handler and publishes the
\* willingness flag.
EvoInitialize ==
    /\ evo' = [evo EXCEPT !.registered = TRUE,
                          !.returned = [from |-> "initialize", input |-> FALSE,
                                        value |-> TRUE]]
    /\ updateMatingMetadata
    /\ UNCHANGED <<ownStatus, isBreeding, breedingVars, otherVars>>

\* checkBreedingOpportunity(), "called periodically by the survival loop": null
\* unless canBreed() and a willing, fit, compatible mate is among the peers.
CheckBreedingOpportunity(mate) ==
    /\ evo' = [evo EXCEPT !.returned =
                 [from |-> "checkBreedingOpportunity", input |-> mate,
                  value |-> canBreed(ownStatus, isBreeding) /\ mate]]
    /\ UNCHANGED <<ownStatus, isBreeding, metadata, breedingVars, otherVars>>

\* executeBreeding(opportunity) without its isBreeding test: every call sets
\* isBreeding and awaits lockBreedingFunds.
ExecuteBreedingUnguarded ==
    /\ isBreeding' = TRUE
    /\ evo' = [evo EXCEPT !.pc = "locking", !.returned = NoReturn]
    /\ breedingResult' = NoBreedingResult
    /\ lockTxA' = "none"
    /\ proposalStatus' = "none"
    /\ waited' = 0
    /\ UNCHANGED <<ownStatus, metadata, escrow, otherVars>>

\* executeBreeding(opportunity): refused while a breeding is in progress; else
\* isBreeding is set and lockBreedingFunds is awaited.
ExecuteBreeding ==
    /\ IF isBreeding
       THEN /\ evo' = [evo EXCEPT !.returned = [from |-> "executeBreeding",
                                               input |-> TRUE, value |-> FALSE]]
            /\ breedingResult' = [settled |-> "returned", success |-> FALSE,
                                  error |-> "Already breeding"]
            /\ UNCHANGED <<isBreeding, lockTxA, proposalStatus, waited>>
       ELSE /\ isBreeding' = TRUE
            /\ evo' = [evo EXCEPT !.pc = "locking", !.returned = NoReturn]
            /\ breedingResult' = NoBreedingResult
            /\ lockTxA' = "none"
            /\ proposalStatus' = "none"
            /\ waited' = 0
    /\ UNCHANGED <<ownStatus, metadata, escrow, otherVars>>

\* A step of executeBreeding's try block throws: the catch resets isBreeding,
\* awaits releaseBreedingLock and returns the failure.
breedingFails(error) ==
    /\ isBreeding' = FALSE
    /\ escrow' = releaseBreedingLock(escrow)
    /\ breedingResult' = failureOutcome(error)
    /\ evo' = [evo EXCEPT !.pc = "idle",
                          !.returned = [from |-> "executeBreeding", input |-> TRUE,
                                        value |-> FALSE]]

\* lockBreedingFunds settles: it failed (no wallet, balance below the lock
\* amount, transfer error), or it answered success without a transfer (test
\* and mock registry), or it transferred breedingLockAmount to the fund.
LockBreedingFundsReturns(outcome) ==
    /\ evo.pc = "locking"
    /\ CASE outcome = "failed" ->
              /\ breedingFails("Failed to lock breeding funds")
              /\ UNCHANGED lockTxA
         [] outcome = "mock" ->
              /\ lockTxA' = "mock"
              /\ evo' = [evo EXCEPT !.pc = "proposing"]
              /\ UNCHANGED <<isBreeding, escrow, breedingResult>>
         [] outcome = "transferred" ->
              /\ escrow < MaxEscrow
              /\ escrow' = escrow + 1
              /\ lockTxA' = "tx"
              /\ evo' = [evo EXCEPT !.pc = "proposing"]
              /\ UNCHANGED <<isBreeding, breedingResult>>
    /\ UNCHANGED <<ownStatus, metadata, proposalStatus, waited, otherVars>>

\* executeBreeding when p2pNetwork.proposeMate has settled: the pending
\* proposal is stored in this.pendingProposals and waitForAcceptance makes its
\* first turn, which finds it pending and sleeps.
proposeMateSettles(ok) ==
    /\ evo.pc = "proposing"
    /\ IF ok
       THEN /\ proposalStatus' = "pending"
            /\ waited' = 0
            /\ evo' = [evo EXCEPT !.pc = "waiting"]
            /\ UNCHANGED <<isBreeding, escrow, breedingResult>>
       ELSE /\ breedingFails("proposeMate")
            /\ UNCHANGED <<proposalStatus, waited>>
    /\ UNCHANGED <<ownStatus, metadata, lockTxA, notBreedVars>>

\* proposeMate of a p2pNetwork collaborator settles.
ProposeMateReturns(ok) ==
    /\ proposeMateSettles(ok)
    /\ UNCHANGED mateVars

\* The peer's answer is recorded on the pending proposal by a p2pNetwork
\* collaborator that sets the status of the proposal object it returned.
MatingResponse(accepted) ==
    /\ evo.pc = "waiting"
    /\ proposalStatus = "pending"
    /\ proposalStatus' = IF accepted THEN "accepted" ELSE "rejected"
    /\ UNCHANGED <<ownStatus, isBreeding, evo, metadata, escrow, lockTxA, waited,
                   breedingResult, otherVars>>

\* The sleep of waitForAcceptance ends, late ms after its delay: the next turn
\* of the loop.  A wait that returns false makes executeBreeding throw.
PollTimerFires(late) ==
    /\ evo.pc = "waiting"
    /\ waited' = waited + pollIntervalMs + late
    /\ LET turn == waitForAcceptance(waited', proposalStatus) IN
       CASE turn = "sleep" -> UNCHANGED <<isBreeding, evo, escrow, breedingResult>>
         [] turn = "accepted" ->
              /\ evo' = [evo EXCEPT !.pc = "steps"]
              /\ UNCHANGED <<isBreeding, escrow, breedingResult>>
         [] turn \in {"rejected", "timeout"} -> breedingFails(NotAccepted)
    /\ UNCHANGED <<ownStatus, metadata, lockTxA, proposalStatus, otherVars>>

\* Steps 3 to 8 (partner memory, blend, child wallet, inscription, deployment,
\* registration) end: in success the lock is released and the result returned.
BreedingStepsReturn(ok) ==
    /\ evo.pc = "steps"
    /\ IF ok
       THEN /\ isBreeding' = FALSE
            /\ escrow' = releaseBreedingLock(escrow)
            /\ breedingResult' = [settled |-> "returned", success |-> TRUE, error |-> ""]
            /\ evo' = [evo EXCEPT !.pc = "idle",
                                  !.returned = [from |-> "executeBreeding",
                                                input |-> TRUE, value |-> TRUE]]
       ELSE breedingFails("breeding step")
    /\ UNCHANGED <<ownStatus, metadata, lockTxA, proposalStatus, waited, otherVars>>

\* handleMatingProposal(proposal), the handler initialize() registered:
\* rejects unless canBreed() and the proposer is a known, fit peer.
HandleMatingProposal(fit) ==
    /\ evo.registered
    /\ evo' = [evo EXCEPT !.returned =
                 [from |-> "handleMatingProposal", input |-> fit,
                  value |-> canBreed(ownStatus, isBreeding) /\ fit]]
    /\ UNCHANGED <<ownStatus, isBreeding, metadata, breedingVars, otherVars>>

\* getBreedingStats(): its canBreed field.
GetBreedingStats ==
    /\ evo' = [evo EXCEPT !.returned =
                 [from |-> "getBreedingStats", input |-> isBreeding,
                  value |-> canBreed(ownStatus, isBreeding)]]
    /\ UNCHANGED <<ownStatus, isBreeding, metadata, breedingVars, otherVars>>

NextBreed ==
    \/ EvoInitialize
    \/ \E mate \in BOOLEAN : CheckBreedingOpportunity(mate)
    \/ ExecuteBreeding
    \/ \E outcome \in {"failed", "mock", "transferred"} : LockBreedingFundsReturns(outcome)
    \/ \E ok \in BOOLEAN : ProposeMateReturns(ok)
    \/ \E accepted \in BOOLEAN : MatingResponse(accepted)
    \/ \E late \in TimerLateness : PollTimerFires(late)
    \/ \E ok \in BOOLEAN : BreedingStepsReturn(ok)
    \/ \E fit \in BOOLEAN : HandleMatingProposal(fit)
    \/ GetBreedingStats

SpecBreed == InitBreed /\ [][NextBreed]_vars

\* ---------------------------------------------------- MemoryBlender actions

\* The blender's runs: the two parent memories are given; everything else
\* stays idle.
InitBlend ==
    /\ InitScheduler
    /\ InitClients
    /\ InitTracking
    /\ InitEvolution
    /\ InitIdentityIdle
    /\ InitExportIdle
    /\ InitX402Idle
    /\ InitMateIdle
    /\ InitImportIdle
    /\ blendIn \in Parents \X Parents
    /\ blendOut = NoBlend
    /\ walletKnown = TRUE
    /\ oldEnough = FALSE
    /\ client = "network"
    /\ usdcBalance = 0
    /\ historicalAvg = 0
    /\ ownStatus = [status |-> ALIVE, mode |-> NORMAL, usdc |-> minBreedingBalance,
                    survivalDays |-> 7]
    /\ metadata = [willingToMate |-> FALSE]

\* blend(parentA, parentB): throws for related parents; else computes the
\* weights, blends the traits (the trait mutates or not, by Math.random) and
\* returns the child with the two contributions.
Blend(mutates, factor) ==
    /\ blendOut.outcome = "none"
    /\ blendIn # <<>>
    /\ LET parentA == blendIn[1]
           parentB == blendIn[2]
       IN IF isRelated(parentA.geneHash, parentB.geneHash)
          THEN blendOut' = [NoBlend EXCEPT !.outcome = "inbreeding"]
          ELSE LET wA == weightA(parentA.survivalDays, parentB.survivalDays)
                   wB == weightB(wA)
               IN blendOut' =
                    [outcome |-> "child", weightA |-> wA, weightB |-> wB,
                     trait |-> blendTrait(parentA.trait, parentB.trait, wA, wB,
                                          mutates, factor),
                     mutated |-> mutates,
                     parents |-> <<parentA.geneHash, parentB.geneHash>>]
    /\ UNCHANGED <<blendIn, schedVars, deathVars, payVars, settleVars, breedVars,
                   identVars, exportVars, x402Vars, mateVars, importVars>>

NextBlend ==
    \E mutates \in BOOLEAN, factor \in MutationFactors :
       Blend(mutates, IF mutates THEN factor ELSE 1000)

SpecBlend == InitBlend /\ [][NextBlend]_vars

\* --------------------------------------------------- memory identity actions

\* The identity functions' runs: a memory of up to MaxRecords records is
\* given; everything else stays idle.
InitIdentity ==
    /\ InitScheduler
    /\ InitClients
    /\ InitTracking
    /\ InitEvolution
    /\ InitBlendIdle
    /\ InitExportIdle
    /\ InitX402Idle
    /\ InitMateIdle
    /\ InitImportIdle
    /\ memoryData \in {[i \in 1..n |-> [key |-> i, value |-> contentOf(i)]] :
                        n \in 0..MaxRecords}
    /\ geneHashes = <<>>
    /\ merkleRoots = <<>>
    /\ walletKnown = TRUE
    /\ oldEnough = FALSE
    /\ client = "network"
    /\ usdcBalance = 0
    /\ historicalAvg = 0
    /\ ownStatus = [status |-> ALIVE, mode |-> NORMAL, usdc |-> minBreedingBalance,
                    survivalDays |-> 7]
    /\ metadata = [willingToMate |-> FALSE]

notIdentVars ==
    <<schedVars, deathVars, payVars, settleVars, breedVars, blendVars,
      exportVars, x402Vars, mateVars, importVars>>

\* The same records are supplied in another order (the insertion order of
\* the object's keys, the order readdir lists the files in): records i and
\* i + 1 change places.
Reorder(i) ==
    /\ i + 1 <= Len(memoryData)
    /\ memoryData' = [memoryData EXCEPT ![i] = memoryData[i + 1],
                                        ![i + 1] = memoryData[i]]
    /\ UNCHANGED <<geneHashes, merkleRoots, notIdentVars>>

\* The records are being supplied in the order of their keys.
suppliedSorted == memoryData = sortByKey(memoryData)

\* generateGeneHash(memoryData) is called.
GenerateGeneHash ==
    /\ Len(geneHashes) < MaxComputations
    /\ geneHashes' = Append(geneHashes, [sorted |-> suppliedSorted,
                                          hash |-> generateGeneHash(memoryData)])
    /\ UNCHANGED <<memoryData, merkleRoots, notIdentVars>>

\* calculateMerkleRoot(memoryDir) is called.
CalculateMerkleRoot ==
    /\ Len(merkleRoots) < MaxComputations
    /\ merkleRoots' = Append(merkleRoots, [sorted |-> suppliedSorted,
                                            hash |-> calculateMerkleRoot(memoryData)])
    /\ UNCHANGED <<memoryData, geneHashes, notIdentVars>>

NextIdentity ==
    \/ \E i \in 1..MaxRecords : Reorder(i)
    \/ GenerateGeneHash
    \/ CalculateMerkleRoot

SpecIdentity == InitIdentity /\ [][NextIdentity]_vars

\* ------------------------------------------------- properties: the scheduler
SeqRange(q) == {q[i] : i \in DOMAIN q}

C3_NoCycleAfterDeath ==
    [][status.status = DEAD => cycleCount' = cycleCount]_vars

\* -------------------------------------------- properties: the payment clients
\* The call of the one client this behaviour constructed, and of the other.
Calls == {pc, nc}

\* The call's challenge asks for more than the balance of the payer's wallet
\* at its handling (the network client looks the wallet up, and has none to
\* ask when the lookup fails).
asksMoreThanBalance(c) ==
    /\ c.desc.kind = "descriptor"
    /\ client = "network" => walletKnown
    /\ c.desc.amount > c.balanceSeen * 10

C5_SignedEqualsRequested ==
    \A i \in DOMAIN auths :
       /\ auths[i].signed = auths[i].declared
       /\ auths[i].declared = auths[i].requested
       /\ auths[i].signed <= auths[i].requested

\* C6: a call whose paid retry was answered "invalid" has signed again and
\* retried once (unless the balance check refused the second signing), and
\* never a second time.
C6_ExactlyOneRetryOnInvalid ==
    \A c \in Calls :
       c.invalids >= 1 =>
          \/ c.signs = 2 /\ c.sent = 2
          \/ c.signs = 1 /\ c.sent = 1 /\ c.error = "insufficient"

\* C7: a call whose paid retry was answered "funds exceeded" has ended, with
\* that error and without a paid response, and the retry so answered is the
\* last authorization it signed and sent.
C7_FundsExceededIsFatal ==
    \A c \in Calls :
       c.fundsExceeded =>
          /\ c.state = "done"
          /\ c.error = "funds_exceeded"
          /\ c.result \in {"threw", "challenge_402"}
          /\ c.sent = c.invalids + 1
          /\ c.signs = c.sent

\* A call has signed again after an "invalid" answer and has then been
\* answered "funds exceeded".
C7_Witness ==
    \E c \in Calls : c.fundsExceeded /\ c.invalids >= 1 /\ c.state = "done"

\* C8: no two signed authorizations carry the same nonce, and the payee
\* settles no nonce twice: an authorization presented again after its
\* settlement spends nothing.
C8_NonceSingleUse ==
    /\ \A i, j \in DOMAIN auths : auths[i].nonce = auths[j].nonce => i = j
    /\ \A i, j \in DOMAIN spent : spent[i].nonce = spent[j].nonce => i = j
    /\ \A j \in DOMAIN spent :
          \E i \in DOMAIN auths : /\ auths[i].nonce = spent[j].nonce
                                   /\ spent[j].value = auths[i].signed \div 10

\* The network client has signed two authorizations, one of them was settled
\* and, presented again, was refused.
C8_Witness ==
    /\ client = "network"
    /\ Len(auths) >= 2
    /\ \E i \in DOMAIN replays :
          /\ ~replays[i].settled
          /\ \E j \in DOMAIN spent : spent[j].nonce = replays[i].nonce

\* C9: no signed authorization is for more than the configured ceiling, nor
\* for more than 3 times the historical average price.
C9_PriceGuards ==
    \A i \in DOMAIN auths :
       /\ auths[i].ceiling > 0 => auths[i].requested <= auths[i].ceiling
       /\ auths[i].avg > 0 => auths[i].requested <= 3 * auths[i].avg

\* C10: every signed authorization answers a descriptor of scheme "exact" on
\* the configured network.
C10_DescriptorChecked ==
    \A i \in DOMAIN auths :
       /\ auths[i].scheme = "exact"
       /\ auths[i].networkId = ConfiguredChainId

\* C11: a call whose first response is not a payment challenge has ended by
\* returning that response (request() with the response's own status), with
\* no error, no authorization signed and no paid retry sent, so that nothing
\* is spent for it.
C11_FreePathReturnsVerbatim ==
    \A c \in Calls :
       (c.state # "first" /\ c.desc.kind = "not402") =>
          /\ c.state = "done"
          /\ c.result = "free"
          /\ c.error = "none"
          /\ c.returned.from = "first"
          /\ client = "payment" => c.returned.status = c.desc.status
          /\ c.signs = 0
          /\ c.sent = 0
          /\ c.nonce = 0

\* request() has returned a first response of status 500 as it came.
C11_Witness ==
    /\ client = "payment"
    /\ pc.state = "done"
    /\ pc.desc.kind = "not402"
    /\ pc.desc.status = 500
    /\ pc.returned = [status |-> 500, from |-> "first"]
    /\ pc.signs = 0

\* C12: a call whose challenge passed the checks, whose balance sufficed and
\* whose paid retry the provider accepted at once has ended having signed
\* exactly one authorization and sent exactly one paid retry, and it returned
\* the paid response.
C12_OnePaymentOneRetry ==
    \A c \in Calls :
       (c.answer \in {"success_tx", "success_notx"} /\ c.invalids = 0) =>
          /\ c.state = "done"
          /\ c.signs = 1
          /\ c.sent = 1
          /\ c.error = "none"
          /\ c.result = "paid_response"
          /\ c.returned.from = "paid"
          /\ client = "payment" => c.returned.status = 200

\* A challenge for 0.0035 USDC with a balance of 10 USDC was paid at once.
C12_Witness ==
    \E c \in Calls :
       /\ c.answer = "success_notx"
       /\ c.invalids = 0
       /\ c.desc.amount = 35000
       /\ c.balanceSeen = 10000000
       /\ c.signs = 1
       /\ c.returned.from = "paid"

\* --------------------------------------- properties: settlement tracking
\* The invocations of pollForSettlement on evidence ev.
pollsOf(ev) == {i \in DOMAIN polls : polls[i].ev = ev}

\* C13: evidence whose tracking has returned without a "confirmed" and without
\* a "failed" report (its submission ran out of retries, or its polling timed
\* out or ran out of attempts) is in the pending set.
C13_AmbiguousEvidenceKept ==
    \A ev \in 1..(nextTxHash - 1) :
       (/\ \A i \in pollsOf(ev) : polls[i].phase = "done"
        /\ \A i \in pollsOf(ev) : polls[i].saw = "none") =>
          ev \in pendingSettlements

\* C14: an invocation to which the status endpoint has reported "confirmed" or
\* "failed" has returned, with true for "confirmed" and false for "failed".
C14_TerminalStatusEndsTracking ==
    \A i \in DOMAIN polls :
       polls[i].saw \in {"confirmed", "failed"} =>
          /\ polls[i].phase = "done"
          /\ polls[i].result = (polls[i].saw = "confirmed")

\* C15: one invocation posts its evidence at most MAX_SUBMIT_RETRIES times.
C15_SubmissionBounded ==
    \A i \in DOMAIN polls : polls[i].posts <= MAX_SUBMIT_RETRIES


\* ------------------------------------------- properties: modes and breeding
\* C16: a cycle classified as Hibernation performs only the heartbeat write and,
\* if unflushed history exists, one forced storage write, and then suspends the
\* cycle timer: when such a cycle completes, no interval is left to fire.
C16_HibernationSuspendsTimer ==
    [][(/\ lastResult' # lastResult
        /\ lastResult'.mode = HIBERNATION) =>
          /\ lastResult'.actions \in
               {pre \o <<"hibernation_pulse">> \o ins \o dth :
                  pre \in {<<>>, <<"mode_change">>},
                  ins \in {<<>>, <<"emergency_inscription">>},
                  dth \in {<<>>, <<"death">>}}
          /\ liveIntervals' = {}]_vars


\* C17: the agent is judged eligible to breed exactly when all five conditions
\* hold: a cycle that completes records the breeding check exactly when the
\* agent, as the cycle found it, was alive, in Normal mode, with a balance of at
\* least the breeding floor, of at least the minimum age, and not mid-breeding.
C17_EligibleIffFiveConditions ==
    [][lastResult' # lastResult =>
         ("breeding_check" \in SeqRange(lastResult'.actions) <=>
            /\ status.status = ALIVE
            /\ lastResult'.mode = NORMAL
            /\ lastResult'.usdc >= BREEDING_FUNDS
            /\ oldEnough
            /\ ~isBreeding)]_vars


\* C18: breeding eligibility is re-evaluated in every cycle and the willingness
\* flag published to the peer-discovery collaborator equals the eligibility
\* evaluated: once initialize() has run, each periodic evaluation by
\* checkBreedingOpportunity leaves metadata.willingToMate equal to canBreed().
C18_FlagFollowsEligibility ==
    [][(/\ evo.registered
        /\ evo'.returned # evo.returned
        /\ evo'.returned.from = "checkBreedingOpportunity") =>
          metadata'.willingToMate = canBreed(ownStatus', isBreeding')]_vars


\* ---------------------------------------- properties: the daily inscription
\* C19: the scheduled inscription clears the in-memory log only after the
\* storage flush succeeded; a failed flush is non-fatal and leaves the log
\* intact, and the flush is attempted again at the next period: the log
\* shrinks only when a daily inscription settles in success, a rejected one
\* changes neither the log nor the agent's life status nor the running loop,
\* and the armed daily timeout is disarmed by stop() alone.
C19_LogClearedOnlyAfterFlush ==
    [][/\ dailyUploads' < dailyUploads =>
            /\ thoughts' = IF inscriptionFailed' THEN thoughts ELSE <<>>
            /\ status' = status
            /\ isRunning' = isRunning
            /\ liveIntervals' = liveIntervals
       /\ Len(thoughts') < Len(thoughts) =>
            /\ dailyUploads' < dailyUploads
            /\ ~inscriptionFailed'
       /\ (dailyInscriptionTimer /\ ~dailyInscriptionTimer') => ~isRunning']_vars

\* A daily inscription was rejected while thoughts were logged: the log is
\* still there and the daily timeout is armed for the next period.
C19_Witness ==
    /\ inscriptionFailed
    /\ dailyUploads = 0
    /\ Len(thoughts) > 0
    /\ dailyInscriptionTimer
    /\ isRunning
    /\ status.status = ALIVE


\* C20: each cycle executes exactly the action set of its mode: a Normal cycle
\* buys a premium inference call through the payment client and evaluates
\* breeding eligibility; a LowPower cycle buys a cheaper call and emits a
\* distress broadcast; an Emergency cycle uses the local fallback, makes no
\* payment and emits distress.
C20_ModeActionSets ==
    lastResult.cycle # 0 =>
       LET acts == SeqRange(lastResult.actions)
           bought == pcRequests + ncRequests > 0
       IN /\ lastResult.mode = NORMAL =>
               /\ "thought_generated:premium" \in acts
               /\ bought
               /\ "breeding_check" \in acts <=>
                     shouldConsiderBreeding(lastResult.usdc, NORMAL)
          /\ lastResult.mode = LOW_POWER =>
               /\ "thought_generated:standard" \in acts
               /\ bought
               /\ "distress_broadcast" \in acts
          /\ lastResult.mode = EMERGENCY =>
               /\ "thought_generated:local" \in acts
               /\ ~bought
               /\ "emergency_distress" \in acts


\* ------------------------------------ properties: classification is monotone
\* Normal > LowPower > Emergency > Hibernation.
modeRank(m) ==
    CASE m = NORMAL -> 3
      [] m = LOW_POWER -> 2
      [] m = EMERGENCY -> 1
      [] m = HIBERNATION -> 0

\* C21: decreasing the stable balance, gas unchanged, never moves the
\* classified mode to a less degraded one: the mode a cycle computed is at
\* least as good as the mode of every smaller stable balance at the same gas
\* balance, and at most as good as the mode of every larger one.
C21_ModeMonotoneInUsdc ==
    lastResult.cycle > 0 =>
       \A u \in UsdcValues :
          /\ u <= lastResult.usdc =>
               modeRank(determineOperationMode(lastResult.eth, u))
                  <= modeRank(lastResult.mode)
          /\ u >= lastResult.usdc =>
               modeRank(determineOperationMode(lastResult.eth, u))
                  >= modeRank(lastResult.mode)

\* A cycle with gas in reserve completed in LowPower mode: the smaller stable
\* balances at that gas balance reach Emergency and Hibernation.
C21_Witness ==
    /\ lastResult.cycle > 0
    /\ lastResult.mode = LOW_POWER
    /\ determineOperationMode(lastResult.eth, EMERGENCY_THRESHOLD - 1) = EMERGENCY
    /\ determineOperationMode(lastResult.eth, HIBERNATION_THRESHOLD - 1) = HIBERNATION


\* --------------------------------------------------- properties: the blender
\* The two hashes have prefixLength characters at least and agree on them.
sharePrefix(geneA, geneB) ==
    /\ Len(geneA) >= prefixLength
    /\ Len(geneB) >= prefixLength
    /\ \A i \in 1..prefixLength : geneA[i] = geneB[i]

\* C22: blend rejects every pair of parents whose identities are equal or
\* share the 8-character prefix, with no registry consulted, and produces no
\* child for such a pair.
C22_RelatedParentsRejected ==
    (/\ blendOut.outcome # "none"
     /\ \/ blendIn[1].geneHash = blendIn[2].geneHash
        \/ sharePrefix(blendIn[1].geneHash, blendIn[2].geneHash)) =>
       /\ blendOut.outcome = "inbreeding"
       /\ blendOut.parents = <<>>
       /\ blendOut = [NoBlend EXCEPT !.outcome = "inbreeding"]

\* blend has rejected two parents whose hashes differ after the prefix only.
C22_Witness ==
    /\ blendOut.outcome = "inbreeding"
    /\ blendIn[1].geneHash # blendIn[2].geneHash
    /\ sharePrefix(blendIn[1].geneHash, blendIn[2].geneHash)


\* C23: the contribution weights blend computes satisfy weightA + weightB = 1
\* with weightA = survivalA / (survivalA + survivalB); they are 0.5 and 0.5
\* when both survival durations are 0; and blend fails, producing no weights,
\* when a survival duration is negative.
C23_WeightsProportionalToSurvival ==
    (/\ blendOut.outcome # "none"
     /\ ~isRelated(blendIn[1].geneHash, blendIn[2].geneHash)) =>
       LET sA == blendIn[1].survivalDays
           sB == blendIn[2].survivalDays
           wA == blendOut.weightA
           wB == blendOut.weightB
       IN IF sA < 0 \/ sB < 0
          THEN blendOut.outcome # "child"
          ELSE /\ blendOut.outcome = "child"
               /\ wA.den = wB.den
               /\ wA.num + wB.num = wA.den
               /\ sA + sB > 0 => sameNumber(wA, fraction(sA, sA + sB))
               /\ (sA = 0 /\ sB = 0) =>
                     /\ sameNumber(wA, fraction(1, 2))
                     /\ sameNumber(wB, fraction(1, 2))


C25_IdentityIgnoresOrder ==
    /\ \A i, j \in DOMAIN geneHashes : geneHashes[i].hash = geneHashes[j].hash
    /\ \A i, j \in DOMAIN merkleRoots : merkleRoots[i].hash = merkleRoots[j].hash
    /\ \A i \in DOMAIN geneHashes :
          geneHashes[i].hash = generateMerkleRoot(sortByKey(memoryData))

\* The identity of five records has been computed twice, once with the
\* records supplied in key order and once in another order.
C25_Witness ==
    /\ Len(memoryData) = 5
    /\ Len(geneHashes) = 2
    /\ geneHashes[1].sorted # geneHashes[2].sorted
    /\ geneHashes[1].hash = geneHashes[2].hash
    /\ geneHashes[1].hash.kind = "node"


\* Every parent node of the tree is the digest of two digests.
RECURSIVE pairsOfDigests(_)
pairsOfDigests(digest) ==
    /\ digest.kind # "undefined"
    /\ \A k \in DOMAIN digest.kids : pairsOfDigests(digest.kids[k])

\* C26: every level of the identity tree that has an odd number of nodes is
\* padded by duplicating its last element, so that for any number of records
\* every parent node is the hash of exactly two existing child hashes.
C26_OddLevelsPadded ==
    /\ \A i \in DOMAIN merkleRoots :
          /\ pairsOfDigests(merkleRoots[i].hash)
          /\ Len(memoryData) > 1 =>
                merkleRoots[i].hash =
                    generateMerkleLevels(
                        [k \in 1..Len(memoryData) |->
                            leafDigest([key |-> 0,
                                        value |-> sortByKey(memoryData)[k].value])])
    /\ \A i \in DOMAIN geneHashes : pairsOfDigests(geneHashes[i].hash)


\* ---------------------------------------------------- memory export actions

\* The exports of one memory directory, which an earlier process may have
\* exported already; everything else stays idle.
InitExport ==
    /\ InitScheduler
    /\ InitClients
    /\ InitTracking
    /\ InitEvolution
    /\ InitBlendIdle
    /\ InitIdentityIdle
    /\ ownStatus = [status |-> ALIVE, mode |-> NORMAL, usdc |-> minBreedingBalance,
                    survivalDays |-> 7]
    /\ metadata = [willingToMate |-> FALSE]
    /\ walletKnown = TRUE
    /\ oldEnough = FALSE
    /\ client = "payment"
    /\ usdcBalance = 0
    /\ historicalAvg = 0
    /\ InitX402Idle
    /\ InitMateIdle
    /\ InitImportIdle
    /\ exportMarker \in BOOLEAN
    /\ tarFiles = {}
    /\ encryptedFiles = {}
    /\ exportCalls = <<>>

notExportVars ==
    <<schedVars, deathVars, payVars, settleVars, breedVars, blendVars, identVars,
      x402Vars, mateVars, importVars>>

\* exportMemory() is called: it runs to the await on fs.access(exportMarker).
ExportMemory ==
    /\ Len(exportCalls) < MaxExports
    /\ exportCalls' = Append(exportCalls,
                             [pc |-> "access", markerAtCall |-> exportMarker,
                              error |-> ""])
    /\ UNCHANGED <<exportMarker, tarFiles, encryptedFiles, notExportVars>>

\* fs.access settles for call n: the call is refused, fails, or goes on to
\* name its archive and await mkdir and createTarGz.
AccessReturns(n, errno) ==
    /\ exportCalls[n].pc = "access"
    /\ LET outcome == accessOutcome(exportMarker, errno) IN
       exportCalls' = [exportCalls EXCEPT
                         ![n].pc = outcome,
                         ![n].error = IF outcome = "refused" THEN AlreadyExported
                                      ELSE IF outcome = "failed" THEN errno
                                      ELSE ""]
    /\ UNCHANGED <<exportMarker, tarFiles, encryptedFiles, notExportVars>>

\* A step of call n's try block fails: the cleanup, then the error is rethrown.
exportFails(n, message) ==
    /\ exportCalls' = [exportCalls EXCEPT ![n].pc = "failed", ![n].error = message]
    /\ tarFiles' = tarFilesAfterCleanup(n)
    /\ encryptedFiles' = encryptedFilesAfterCleanup(n)
    /\ UNCHANGED exportMarker

\* mkdir and createTarGz settle for call n.
CreateTarGzReturns(n, ok) ==
    /\ exportCalls[n].pc = "archive"
    /\ IF ok
       THEN /\ tarFiles' = tarFiles \cup {n}
            /\ exportCalls' = [exportCalls EXCEPT ![n].pc = "encrypt"]
            /\ UNCHANGED <<exportMarker, encryptedFiles>>
       ELSE exportFails(n, "tar")
    /\ UNCHANGED notExportVars

\* calculateMerkleRoot and encryptWithGPG settle for call n.
EncryptWithGPGReturns(n, ok) ==
    /\ exportCalls[n].pc = "encrypt"
    /\ IF ok
       THEN /\ encryptedFiles' = encryptedFiles \cup {n}
            /\ exportCalls' = [exportCalls EXCEPT ![n].pc = "mark"]
            /\ UNCHANGED <<exportMarker, tarFiles>>
       ELSE exportFails(n, "gpg")
    /\ UNCHANGED notExportVars

\* fs.writeFile(exportMarker) settles for call n.
WriteMarkerReturns(n, ok) ==
    /\ exportCalls[n].pc = "mark"
    /\ IF ok
       THEN /\ exportMarker' = TRUE
            /\ exportCalls' = [exportCalls EXCEPT ![n].pc = "unlink"]
            /\ UNCHANGED <<tarFiles, encryptedFiles>>
       ELSE exportFails(n, "write")
    /\ UNCHANGED notExportVars

\* fs.unlink(tarFile) settles for call n: the result is returned.
UnlinkReturns(n) ==
    /\ exportCalls[n].pc = "unlink"
    /\ tarFiles' = tarFiles \ {n}
    /\ exportCalls' = [exportCalls EXCEPT ![n].pc = "exported"]
    /\ UNCHANGED <<exportMarker, encryptedFiles, notExportVars>>

NextExport ==
    \/ ExportMemory
    \/ \E n \in DOMAIN exportCalls :
          \/ \E errno \in AccessErrors : AccessReturns(n, errno)
          \/ \E ok \in BOOLEAN :
                \/ CreateTarGzReturns(n, ok)
                \/ EncryptWithGPGReturns(n, ok)
                \/ WriteMarkerReturns(n, ok)
          \/ UnlinkReturns(n)

SpecExport == InitExport /\ [][NextExport]_vars

C28_LockReleasedOnFailure ==
    (/\ evo.pc = "idle"
     /\ breedingResult.settled # "none"
     /\ ~breedingResult.success
     /\ breedingResult.error # "Already breeding"
     /\ lockTxA = "tx") => escrow = 0

\* The wait of the last attempt ended at the deadline test.
timedOut ==
    /\ evo.pc = "idle"
    /\ breedingResult.settled # "none"
    /\ waited >= timeoutMs

\* C29 as stated: after sending a proposal the proposer waits for acceptance
\* for at most the timeout of 60 s, and a timeout ends the attempt as a failed
\* outcome returned to the caller, not as a raised error.
C29_WaitAtMostTimeout ==
    /\ waited <= timeoutMs
    /\ timedOut => breedingResult = [settled |-> "returned", success |-> FALSE,
                                     error |-> NotAccepted]

\* C29, amended: the proposer reads the pending proposal and goes to sleep
\* only while less than the timeout has elapsed since the wait began, so the
\* wait ends at the first deadline test made once the timeout has elapsed; a
\* timeout ends the attempt as a failed outcome returned to the caller, not
\* as a raised error, and the attempt is no longer in progress.
C29_PollsOnlyBeforeTimeout ==
    /\ evo.pc = "waiting" => waited < timeoutMs
    /\ evo.pc = "steps" => waited < timeoutMs
    /\ timedOut => /\ breedingResult = [settled |-> "returned", success |-> FALSE,
                                        error |-> NotAccepted]
                   /\ ~isBreeding

\* A wait has timed out, later than the timeout, and the failure was returned.
C29_Witness ==
    /\ timedOut
    /\ waited > timeoutMs
    /\ proposalStatus = "pending"
    /\ breedingResult.settled = "returned"


\* ------------------------------------------------------ X402Survival actions

\* The feral agent's survival loop alone; everything else stays idle.
InitX402 ==
    /\ InitScheduler
    /\ InitClients
    /\ InitTracking
    /\ InitEvolution
    /\ InitBlendIdle
    /\ InitIdentityIdle
    /\ InitExportIdle
    /\ InitX402Idle
    /\ InitMateIdle
    /\ InitImportIdle
    /\ ownStatus = [status |-> ALIVE, mode |-> NORMAL, usdc |-> minBreedingBalance,
                    survivalDays |-> 7]
    /\ metadata = [willingToMate |-> FALSE]
    /\ walletKnown = TRUE
    /\ oldEnough = FALSE
    /\ client = "payment"
    /\ usdcBalance = 0
    /\ historicalAvg = 0

notX402Vars ==
    <<schedVars, deathVars, payVars, settleVars, breedVars, blendVars, identVars,
      exportVars, mateVars, importVars>>

\* startSurvivalLoop(): begins a survivalCheck and creates the interval; it
\* does not test whether an interval exists.
X402StartSurvivalLoop ==
    /\ x402Intervals < MaxIntervals
    /\ pendingChecks < MaxPending
    /\ pendingChecks' = pendingChecks + 1
    /\ x402Intervals' = x402Intervals + 1
    /\ survivalInterval' = TRUE
    /\ UNCHANGED <<x402State, heartbeat, notX402Vars>>

\* An interval fires: a survivalCheck begins.
X402IntervalFires ==
    /\ x402Intervals > 0
    /\ pendingChecks < MaxPending
    /\ pendingChecks' = pendingChecks + 1
    /\ UNCHANGED <<x402State, survivalInterval, x402Intervals, heartbeat, notX402Vars>>

\* stopSurvivalLoop(): clears the interval this.survivalInterval holds.
stopSurvivalLoop ==
    /\ survivalInterval' = FALSE
    /\ x402Intervals' = IF survivalInterval THEN x402Intervals - 1 ELSE x402Intervals

\* A survivalCheck settles.  It read the balance usdc unless updateBalance
\* threw; it failed at updateBalance, at a later step (after the mode was
\* set), or not at all.  A failure increments consecutiveFailures and, past
\* the limit, sets the mode and runs hibernate(), which writes the notice and
\* only then stops the loop.
X402SurvivalCheck(failAt, usdc, written) ==
    /\ pendingChecks > 0
    /\ pendingChecks' = pendingChecks - 1
    /\ LET seen == IF failAt = "balance" THEN x402State
                   ELSE [x402State EXCEPT !.usdcBalance = usdc,
                                          !.mode = survivalMode(usdc)]
       IN
       IF failAt = "none"
       THEN /\ x402State' = [seen EXCEPT !.consecutiveFailures = 0]
            /\ UNCHANGED <<survivalInterval, x402Intervals, heartbeat>>
       ELSE /\ x402State.consecutiveFailures < MaxFailures
            /\ LET failures == x402State.consecutiveFailures + 1 IN
               IF tooManyFailures(failures)
               THEN /\ x402State' = [seen EXCEPT !.consecutiveFailures = failures,
                                                 !.mode = "hibernation"]
                    /\ heartbeat' = (heartbeat \/ written)
                    /\ IF written THEN stopSurvivalLoop
                       ELSE UNCHANGED <<survivalInterval, x402Intervals>>
               ELSE /\ x402State' = [seen EXCEPT !.consecutiveFailures = failures]
                    /\ UNCHANGED <<survivalInterval, x402Intervals, heartbeat>>
    /\ UNCHANGED notX402Vars

NextX402 ==
    \/ X402StartSurvivalLoop
    \/ X402IntervalFires
    \/ \E failAt \in {"none", "balance", "later"}, usdc \in X402Balances,
          written \in BOOLEAN : X402SurvivalCheck(failAt, usdc, written)

SpecX402 == InitX402 /\ [][NextX402]_vars

\* ------------------------------------ properties: hibernation after failures
\* C30: the scheduler moves to Hibernation, independent of balance, when five
\* consecutive cycles have failed.
C30_HibernationAfterFiveFailures ==
    x402State.consecutiveFailures >= 5 => x402State.mode = "hibernation"


\* ------------------------------------------------------------------ C31
\* C31: a survival cycle that ended on a fatal error has degraded the agent to
\* Hibernation: whenever some invocation of runSurvivalCycle has failed, the
\* operation mode is HIBERNATION.
C31_FailedCycleHibernates ==
    \A n \in 1..MaxCycles : frames[n].pc = "failed" => status.mode = HIBERNATION


\* ------------------------------------------------------------------ C32
\* The invocations of runSurvivalCycle suspended at an await, between their
\* first and their last access to this.status and this.thoughts.
cyclesInProgress == {n \in 1..MaxCycles : frames[n].pc \in {"balances", "inscribing"}}

\* C32: the accesses to the survival state and to the log are serialized: at no
\* time are two survival cycles, or a survival cycle and a daily inscription,
\* or two daily inscriptions, in progress together.
C32_AccessSerialized == Cardinality(cyclesInProgress) + dailyUploads <= 1


\* ------------------------------------------------------------------ C33
\* C33: once a termination signal has been received (handleDeath has set
\* isShuttingDown), no step starts a further survival cycle or a further
\* scheduled inscription.
C33_NoStartAfterSignal ==
    [][isShuttingDown => /\ cycleCount' = cycleCount
                         /\ dailyUploads' <= dailyUploads]_vars


\* ------------------------------------------------------------------ C34
\* C34: every exit path leaves no unflushed history: the step that completes
\* the death ritual, and the step by which stop() ends the loop while no upload
\* is in flight, leave the log empty.
C34_HistoryFlushedOnExit ==
    [][(\/ deathPc = "ritual" /\ deathPc' = "done"
        \/ isRunning /\ ~isRunning' /\ dailyUploads = 0)
       => thoughts' = <<>>]_vars


LogUsdcValues == {HIBERNATION_THRESHOLD - 1, LOW_POWER_THRESHOLD}

\* A cycle runs on from getBalances; an entry it pushes while an upload is in
\* flight is in no payload.
LoggedBalancesReturn(n, usdc) ==
    /\ runSurvivalCycleAfterBalances(n, MIN_ETH_FOR_GAS, usdc)
    /\ unsent' = IF dailyUploads > 0 /\ Len(thoughts') > Len(thoughts)
                 THEN unsent + 1 ELSE unsent

\* The daily timeout fires: the payload holds every entry of the log.
LoggedDailyTimerFires ==
    /\ performDailyInscription
    /\ unsent' = 0

\* dailyInscribe settles: the count ends with the clear of the log, and when no
\* upload is left in flight.
LoggedDailyInscriptionReturn(ok) ==
    /\ dailyInscribeSettles(ok)
    /\ unsent' = IF ok \/ dailyUploads' = 0 THEN 0 ELSE unsent

NextLog ==
    \/ StartSurvivalLoop
    \/ TimerFires
    \/ \E n \in 1..MaxCycles, usdc \in LogUsdcValues : LoggedBalancesReturn(n, usdc)
    \/ \E n \in 1..MaxCycles : EmergencyInscriptionReturn(n)
    \/ LoggedDailyTimerFires
    \/ \E ok \in BOOLEAN : LoggedDailyInscriptionReturn(ok)
    \/ Stop
    \/ HandleDeath
    \/ HandleDeathReturn

SpecLog == Init /\ [][NextLog]_vars

\* C39: no history entry is lost: when a daily upload has succeeded and the log
\* is cleared, no entry had been pushed to the log since that upload's payload
\* was built.
C39_NoEntryLost ==
    [][(dailyUploads' < dailyUploads /\ ~inscriptionFailed') => unsent = 0]_vars


ownGeneHash == "A"
targetGeneHash == "B"

\* Map.set(key, object)
mapSet(map, key, object) ==
    [k \in DOMAIN map \cup {key} |-> IF k = key THEN object ELSE map[k]]

\* The longest a sleep of the wait overruns its delay.
maxLateness == CHOOSE late \in TimerLateness : \A other \in TimerLateness : other <= late

\* A message handled now is handled before the deadline of the wait, and one
\* more turn of the wait's loop comes before the deadline.
beforeTimeout == waited + pollIntervalMs + maxLateness < timeoutMs

\* These runs: an agent that may breed, with a P2PNetwork that holds nothing.
InitMate ==
    /\ InitScheduler
    /\ InitClients
    /\ InitTracking
    /\ InitEvolution
    /\ InitBlendIdle
    /\ InitIdentityIdle
    /\ InitExportIdle
    /\ InitX402Idle
    /\ InitMateIdle
    /\ InitImportIdle
    /\ walletKnown = TRUE
    /\ oldEnough = FALSE
    /\ client = "network"
    /\ usdcBalance = 0
    /\ historicalAvg = 0
    /\ ownStatus = [status |-> ALIVE, mode |-> NORMAL, usdc |-> minBreedingBalance,
                    survivalDays |-> 7]
    /\ metadata \in [willingToMate : BOOLEAN]

\* P2PNetwork.proposeMate settles: the proposal it publishes is stored under
\* proposal.proposerGeneHash, this agent's own gene hash, and returned.
ProposeMate(ok) ==
    /\ proposeMateSettles(ok)
    /\ proposals' = IF ok THEN mapSet(proposals, ownGeneHash, "outgoing") ELSE proposals
    /\ delivered' = {}
    /\ UNCHANGED incomingStatus

\* P2PNetwork.handleMatingProposal on a proposal the target peer made to this
\* agent: stored under the proposer's gene hash, then accepted or rejected as
\* EvolutionManager.handleMatingProposal decides; acceptMateProposal throws,
\* and the proposal stays pending, when the agent is not willingToMate.
ReceiveMatingProposal(fit) ==
    /\ proposals' = mapSet(proposals, targetGeneHash, "incoming")
    /\ incomingStatus' = IF canBreed(ownStatus, isBreeding) /\ fit
                         THEN (IF metadata.willingToMate THEN "accepted" ELSE "pending")
                         ELSE "rejected"
    /\ UNCHANGED <<delivered, breedVars, notBreedVars>>

\* P2PNetwork.handleMatingResponse on the target's answer to the proposal of
\* the attempt in progress: the proposal stored under
\* originalProposal.targetGeneHash, if there is one, gets the status.
HandleMatingResponse(accepted) ==
    /\ evo.pc = "waiting"
    /\ LET answer == IF accepted THEN "accepted" ELSE "rejected"
           found == IF targetGeneHash \in DOMAIN proposals
                    THEN proposals[targetGeneHash] ELSE "none"
       IN /\ proposalStatus' = IF found = "outgoing" THEN answer ELSE proposalStatus
          /\ incomingStatus' = IF found = "incoming" THEN answer ELSE incomingStatus
    /\ delivered' = IF beforeTimeout THEN delivered \cup {accepted} ELSE delivered
    /\ UNCHANGED <<proposals, ownStatus, isBreeding, evo, metadata, escrow, lockTxA,
                   waited, breedingResult, notBreedVars>>

NextMate ==
    \/ ExecuteBreeding
    \/ \E outcome \in {"failed", "mock", "transferred"} : LockBreedingFundsReturns(outcome)
    \/ \E ok \in BOOLEAN : ProposeMate(ok)
    \/ \E fit \in BOOLEAN : ReceiveMatingProposal(fit)
    \/ \E accepted \in BOOLEAN : HandleMatingResponse(accepted)
    \/ \E late \in TimerLateness : PollTimerFires(late)

SpecMate == InitMate /\ [][NextMate]_vars

\* C37: when the target accepted and its response was handled by the proposer
\* before the timeout (and no rejection was), the wait for acceptance ends with
\* acceptance: the step that ends the wait moves the attempt on to the steps
\* after the rendezvous.
C37_AcceptanceEndsWait ==
    [][(/\ evo.pc = "waiting"
        /\ delivered = {TRUE}
        /\ evo'.pc # "waiting") => evo'.pc = "steps"]_vars


\* ------------------------------------------------------------------ C36
\* loadMemoryData(outputDir, geneHash): the MemoryData built from the extracted
\* files; its geneHash is the argument, whatever IDENTITY.md declares.
loadMemoryData(declared, geneHash) == [geneHash |-> geneHash, declared |-> declared]

\* MemoryImporter.import once the archive is extracted: computeGeneHash,
\* loadMemoryData, the comparison of memory.geneHash with the computed hash
\* unless skipValidation, and the ImportResult.
importResult(file, skipValidation) ==
    LET computedGeneHash == file.computed
        memory == loadMemoryData(file.declared, computedGeneHash)
        verified == IF ~skipValidation
                       /\ memory.geneHash # NoHash
                       /\ memory.geneHash # computedGeneHash
                    THEN FALSE ELSE TRUE
    IN [settled |-> TRUE, thrown |-> FALSE, skipValidation |-> skipValidation,
        geneHash |-> computedGeneHash, memory |-> memory, verified |-> verified]

\* import threw before its result (file not found, decryption, extraction, no
\* memory file in the archive).
importThrown(skipValidation) ==
    [settled |-> TRUE, thrown |-> TRUE, skipValidation |-> skipValidation]

\* These runs: an archive whose files declare a gene hash or none and hash to
\* another or the same, and a birth configured with a gene hash.
InitImport ==
    /\ InitScheduler
    /\ InitClients
    /\ InitTracking
    /\ InitEvolution
    /\ InitBlendIdle
    /\ InitIdentityIdle
    /\ InitExportIdle
    /\ InitX402Idle
    /\ InitMateIdle
    /\ ownStatus = [status |-> ALIVE, mode |-> NORMAL, usdc |-> minBreedingBalance,
                    survivalDays |-> 7]
    /\ metadata = [willingToMate |-> FALSE]
    /\ walletKnown = TRUE
    /\ oldEnough = FALSE
    /\ client = "network"
    /\ usdcBalance = 0
    /\ historicalAvg = 0
    /\ archive \in [declared : ArchiveHashes \cup {NoHash}, computed : ArchiveHashes]
    /\ expectedGeneHash \in ArchiveHashes
    /\ imported = NoImport
    /\ birthImport = "none"

notImportVars ==
    <<schedVars, deathVars, payVars, settleVars, breedVars, blendVars, identVars,
      exportVars, x402Vars, mateVars>>

\* MemoryImporter.import(options) settles.
Import(skipValidation, extracted) ==
    /\ imported' = IF extracted THEN importResult(archive, skipValidation)
                   ELSE importThrown(skipValidation)
    /\ UNCHANGED <<archive, expectedGeneHash, birthImport, notImportVars>>

\* Birth.importMemory(config) settles: import with skipValidation false, then
\* the comparison of result.geneHash with config.geneHash.
ImportMemory(extracted) ==
    /\ imported' = IF extracted THEN importResult(archive, FALSE)
                   ELSE importThrown(FALSE)
    /\ birthImport' = IF ~extracted \/ imported'.geneHash # expectedGeneHash
                      THEN "thrown" ELSE "returned"
    /\ UNCHANGED <<archive, expectedGeneHash, notImportVars>>

NextImport ==
    \/ \E skipValidation \in BOOLEAN, extracted \in BOOLEAN :
         Import(skipValidation, extracted)
    \/ \E extracted \in BOOLEAN : ImportMemory(extracted)

SpecImport == InitImport /\ [][NextImport]_vars

\* The files of the archive declare a gene hash that is not the one computed
\* from them.
geneHashMismatch == archive.declared # NoHash /\ archive.declared # archive.computed

\* C36: an import whose recomputed gene hash does not match the identity the
\* memory declares fails: when import validated such an archive and returned,
\* the memory is not reported verified and does not carry the recomputed hash
\* in the place of the declared one.
C36_MismatchFailsImport ==
    (/\ geneHashMismatch
     /\ imported.settled
     /\ ~imported.thrown
     /\ ~imported.skipValidation)
    => /\ ~imported.verified
       /\ imported.memory.geneHash # archive.computed


\* ------------------------------------------------------------------ C35
\* The economic and integrity errors of a challenge's handling: insufficient
\* funds, the price guard, a rejected descriptor, funds exceeded.
EconomicOrIntegrityErrors ==
    {"insufficient", "price", "scheme", "network", "funds_exceeded"}

\* C35: a call whose handling of the challenge ended in an economic or an
\* integrity error has reported that error to its caller: it threw, and did
\* not return a response.
C35_ErrorsReportedToCaller ==
    \A c \in Calls :
       (c.state = "done" /\ c.error \in EconomicOrIntegrityErrors) => c.result = "threw"

=============================================================================
